---- MODULE Spec2Model ----
(***************************************************************************)
(* Model of the bet ledger (BetService.processBet), the Kafka event        *)
(* batcher (publishBetEvent / processBatch / scheduleBatch), the consumer  *)
(* (subscribeToBetEvents, BetService.processBetEvent, insertBetEvent),     *)
(* gracefulShutdown, and the PostgreSQL ledger store they run against.     *)
(*                                                                         *)
(* Units.  Money is counted in mills (1/1000 of a currency unit), so that  *)
(* a request amount with more than two decimals can be told from the value *)
(* a DECIMAL(10,2) column keeps of it; a stored money value is a multiple  *)
(* of 10.  Odds are counted in hundredths (DECIMAL(5,2)).  A potential win *)
(* is amount * odds and therefore counted in 1/100000; a stored            *)
(* potential_win is a multiple of 1000.  JavaScript's binary floating      *)
(* point is not modelled: arithmetic is exact decimal arithmetic.          *)
(*                                                                         *)
(* Store.  Every awaited client.query is one step.  A statement that       *)
(* fails has no effect on the store.  Committed rows live in users, bets   *)
(* and walletTx; the rows a transaction has written and not yet committed  *)
(* live in tx[c] and are invisible to the other transactions (READ         *)
(* COMMITTED).  rowLock[u] is the holder of the row lock on users row u.   *)
(***************************************************************************)
EXTENDS Integers, Sequences, FiniteSets, TLC

\* Number of processBet calls that may run concurrently.
NumCalls == 2

\* kafka.ts: const BATCH_SIZE = 100
BATCH_SIZE == 100

Calls == 1..NumCalls

\* Rows of the users and games tables.
Users == {"u1", "u2"}
Games == {"g1"}

\* users rows at start: u1 holds 100.00, u2 holds 10.00; version DEFAULT 0.
InitUsers ==
    [u \in Users |->
        IF u = "u1" THEN [balance |-> 100000, version |-> 0]
                    ELSE [balance |-> 10000, version |-> 0]]

\* The validated BetRequest values the calls are made with.  betValueLen is
\* the length of the optional betValue, 0 when it is absent.
Requests ==
    { [userId |-> "u1",    gameId |-> "g1", amount |-> 50000, odds |-> 200, betValueLen |-> 0],
      [userId |-> "u2",    gameId |-> "g1", amount |-> 500,   odds |-> 101, betValueLen |-> 0],
      [userId |-> "u1",    gameId |-> "g1", amount |-> 6,     odds |-> 200, betValueLen |-> 4],
      [userId |-> "u1",    gameId |-> "gX", amount |-> 50000, odds |-> 200, betValueLen |-> 0],
      [userId |-> "u2",    gameId |-> "g1", amount |-> 50000, odds |-> 200, betValueLen |-> 0],
      [userId |-> "ghost", gameId |-> "g1", amount |-> 50000, odds |-> 200, betValueLen |-> 0] }

VARIABLES
    users,               \* committed users rows: [balance, version]
    bets,                \* committed bets rows
    walletTx,            \* committed wallet_transactions rows
    rowLock,             \* users row -> call holding its row lock, 0 if none
    tx,                  \* call -> its open transaction's uncommitted writes
    pc,                  \* call -> the await processBet is suspended at
    req,                 \* call -> its BetRequest
    local,               \* call -> balance, version, newBalance, potentialWin, rowCount
    result,              \* call -> what processBet returned or threw
    fault,               \* call -> the first statement of the call the store failed
    pub,                 \* call -> state of its publishBetEvent promise
    isProducerConnected, \* kafka.ts module state
    messageQueue,        \* kafka.ts module state: pending messages
    batchTimer,          \* kafka.ts module state: TRUE when batchTimer holds a timer
    timers,              \* number of setTimeout callbacks of scheduleBatch not yet run
    inflight,            \* batches spliced by a processBatch still awaiting the bus
    bus,                 \* messages the bet-events topic has accepted
    flushLog,            \* every batch a processBatch has spliced, with what started it
    offset,              \* number of bus messages the consumer has been through
    handlerLog,          \* the events messageHandler has been invoked with
    analytics,           \* rows of distributed_systems.bet_events
    redelivered,         \* number of times the topic has delivered a message again
    subscribed,          \* TRUE once subscribeToBetEvents has the consumer running
    proc,                \* the process: "running", or how far gracefulShutdown is
    query,               \* arguments of the last getBetAnalytics call
    response             \* what the last getBetAnalytics call returned or threw

ledgerVars == <<users, bets, walletTx, rowLock, tx>>
callVars == <<pc, req, local, result, fault>>
batcherVars == <<pub, isProducerConnected, messageQueue, batchTimer, timers, inflight,
                 bus, flushLog>>
consumerVars == <<offset, handlerLog, analytics, redelivered, subscribed>>
queryVars == <<query, response>>
vars == <<users, bets, walletTx, rowLock, tx, pc, req, local, result, fault,
          pub, isProducerConnected, messageQueue, batchTimer, timers, inflight, bus,
          flushLog, offset, handlerLog, analytics, redelivered, subscribed, proc, query,
          response>>

NoReq == [userId |-> "", gameId |-> "", amount |-> 0, odds |-> 0, betValueLen |-> 0]
NoLocal == [balance |-> -1, version |-> -1, newBalance |-> -1,
            potentialWin |-> -1, rowCount |-> -1, reject |-> "", versionAtUpdate |-> -1,
            client |-> FALSE, released |-> 0]
NoResult == [kind |-> "pending", status |-> "", error |-> "", newBalance |-> -1,
             potentialWin |-> -1, currentBalance |-> -1]
NoTx == [open |-> FALSE, userRow |-> <<>>, bets |-> {}, wtxs |-> {}]
NoQuery == [startDate |-> -1, endDate |-> -1, groupBy |-> ""]
NoResponse == [kind |-> "none", data |-> <<>>]

\* Faulty variant of UserNotFound: the reason of another rejection pasted in.
UserNotFoundWrongReason == "Insufficient balance"

UserNotFound == "User not found"
InsufficientBalance == "Insufficient balance"
ConcurrentModification == "Concurrent modification detected. Please retry."

Init ==
    /\ users = InitUsers
    /\ bets = {}
    /\ walletTx = {}
    /\ rowLock = [u \in Users |-> 0]
    /\ tx = [c \in Calls |-> NoTx]
    /\ pc = [c \in Calls |-> "idle"]
    /\ req = [c \in Calls |-> NoReq]
    /\ local = [c \in Calls |-> NoLocal]
    /\ result = [c \in Calls |-> NoResult]
    /\ fault = [c \in Calls |-> "none"]
    /\ pub = [c \in Calls |-> "none"]
    /\ isProducerConnected = FALSE
    /\ messageQueue = <<>>
    /\ batchTimer = FALSE
    /\ timers = 0
    /\ inflight = {}
    /\ bus = <<>>
    /\ flushLog = <<>>
    /\ offset = 0
    /\ handlerLog = <<>>
    /\ analytics = <<>>
    /\ redelivered = 0
    /\ subscribed = FALSE
    /\ proc = "running"
    /\ query = NoQuery
    /\ response = NoResponse

(***************************************************************************)
(* The ledger store: column types and constraints of 01-init-postgres.sql. *)
(***************************************************************************)

\* A money value (mills) as a DECIMAL(10,2) column keeps it: rounded to the
\* cent, half away from zero.  Only non-negative values are stored.
ToDecimal2(x) == ((x + 5) \div 10) * 10

\* A potential win (1/100000) as bets.potential_win DECIMAL(10,2) keeps it.
WinToDecimal2(p) == ((p + 500) \div 1000) * 1000

\* users: CHECK (balance >= 0).
UsersConstraintsHold(row) == row.balance >= 0

\* bets: CHECK (amount > 0), evaluated on the value the column keeps, and
\* game_id REFERENCES games(id).
BetsConstraintsHold(row) == row.amount > 0 /\ row.game_id \in Games

(***************************************************************************)
(* BetService.processBet: the pure parts.                                  *)
(***************************************************************************)

\* Faulty variant of InsufficientFunds: only an empty balance is refused.
InsufficientFundsOnlyWhenEmpty(balance, amount) == balance <= 0

\* if (balance < amount)
InsufficientFunds(balance, amount) == balance < amount

\* const newBalance = balance - amount
NewBalance(balance, amount) == balance - amount

\* const potentialWin = amount * odds
PotentialWin(amount, odds) == amount * odds

\* Faulty variant of NextVersion: the version is written back unchanged.
NextVersionStuck(v) == v

\* SET version = version + 1
NextVersion(v) == v + 1

\* Faulty variant of UpdateRowCount: the WHERE clause without "AND version = $3".
UpdateRowCountIgnoringVersion(c) == 1

\* UPDATE users ... WHERE id = $2 AND version = $3: the number of rows updated.
\* The statement runs when it holds the row lock, so it sees the committed row.
UpdateRowCount(c) ==
    IF users[req[c].userId].version = local[c].version THEN 1 ELSE 0

\* The users row the UPDATE writes: balance = $1 as the column keeps it.
UpdatedUserRow(c) ==
    [balance |-> ToDecimal2(local[c].newBalance),
     version |-> NextVersion(users[req[c].userId].version)]

\* The row INSERT INTO bets adds (status 'pending').
BetRow(c) ==
    [id |-> c, user_id |-> req[c].userId, game_id |-> req[c].gameId,
     amount |-> ToDecimal2(req[c].amount), odds |-> req[c].odds,
     potential_win |-> WinToDecimal2(local[c].potentialWin), status |-> "pending"]

\* The row INSERT INTO wallet_transactions adds (transaction_type 'bet').
WalletRow(c) ==
    [user_id |-> req[c].userId, transaction_id |-> c, transaction_type |-> "bet",
     amount |-> ToDecimal2(req[c].amount),
     balance_before |-> ToDecimal2(local[c].balance),
     balance_after |-> ToDecimal2(local[c].newBalance), bet_id |-> c]

\* What COMMIT makes visible of transaction c.
CommitUsers(c) ==
    IF tx[c].userRow = <<>> THEN users
    ELSE [users EXCEPT ![req[c].userId] = tx[c].userRow[1]]

CommitBets(c) == bets \cup tx[c].bets

\* Faulty variant of CommitWalletTx: the audit row is not part of the transaction.
CommitWalletTxLost(c) == walletTx

CommitWalletTx(c) == walletTx \cup tx[c].wtxs

\* The row locks left once transaction c has ended.
ReleaseLocks(c) == [u \in Users |-> IF rowLock[u] = c THEN 0 ELSE rowLock[u]]

\* A statement inside the inner try threw: control goes to catch (dbError),
\* which awaits ROLLBACK.  fault keeps the first statement that the store
\* failed (ok = FALSE); a statement refused for a constraint leaves it.
ToCatch(c, s, ok) ==
    /\ pc' = [pc EXCEPT ![c] = "catch_rb"]
    /\ fault' = [fault EXCEPT ![c] = IF @ = "none" /\ ~ok THEN s ELSE @]

\* client = await pgPool.connect() has resolved: the call holds a client.
Acquire(l) == [l EXCEPT !.client = TRUE]

\* Faulty variant of Finally: the client is never given back.
FinallyKeepsClient(l) == l

\* finally { if (client) client.release() }, with the call's locals l.
Finally(l) == IF l.client THEN [l EXCEPT !.released = @ + 1] ELSE l

(***************************************************************************)
(* BetService.processBet: one action per awaited statement.                *)
(***************************************************************************)

\* processBet is called: betId and transactionId are drawn, pgPool.connect()
\* is awaited.
Start(c) ==
    /\ pc[c] = "idle"
    /\ \E r \in Requests : req' = [req EXCEPT ![c] = r]
    /\ pc' = [pc EXCEPT ![c] = "connect"]
    /\ UNCHANGED <<ledgerVars, local, result, fault, batcherVars, consumerVars, proc, queryVars>>

\* config.database.max and config.database.connectionTimeoutMillis, as the
\* environment leaves them.
PoolMax == 20
ConnectionTimeoutMillis == 2000

\* The calls that hold a client of the pool: from pgPool.connect() to
\* client.release() in finally.
InUse == {c \in DOMAIN pc : pc[c] \notin {"idle", "connect", "done", "exited"}}

\* Faulty variant of ConnectOutcomes: a connect queued on a full pool has no
\* timeout and waits until a client is released.
ConnectOutcomesNoTimeout(max) ==
    IF proc \notin {"running", "stopping"} THEN {FALSE}
    ELSE IF Cardinality(InUse) < max THEN BOOLEAN
    ELSE {}

\* How pgPool.connect() can end on a pool of max clients: a pool on which
\* end() has been called refuses; with a client idle or the pool not full
\* the call gets a client, or the connection fails; on a full pool the call
\* is queued, and rejected once connectionTimeoutMillis have passed unless a
\* client was released before.
ConnectOutcomes(max) ==
    IF proc \notin {"running", "stopping"} THEN {FALSE}
    ELSE IF Cardinality(InUse) < max THEN BOOLEAN
    ELSE IF ConnectionTimeoutMillis > 0 THEN {FALSE}
    ELSE {}

\* client = await pgPool.connect() on a pool of max clients.  A failure is
\* thrown through the outer catch; client is null, nothing is released.
ConnectPool(c, max) ==
    /\ pc[c] = "connect"
    /\ \E ok \in ConnectOutcomes(max) :
        IF ok
        THEN /\ pc' = [pc EXCEPT ![c] = "begin"]
             /\ local' = [local EXCEPT ![c] = Acquire(@)]
             /\ UNCHANGED <<result, fault>>
        ELSE /\ pc' = [pc EXCEPT ![c] = "done"]
             /\ local' = [local EXCEPT ![c] = Finally(@)]
             /\ fault' = [fault EXCEPT ![c] =
                            IF Cardinality(InUse) >= max THEN "pool_timeout" ELSE "connect"]
             /\ result' = [result EXCEPT ![c] = [NoResult EXCEPT !.kind = "thrown"]]
    /\ UNCHANGED <<ledgerVars, req, batcherVars, consumerVars, proc, queryVars>>

Connect(c) == ConnectPool(c, PoolMax)

\* Size of the pool when DB_MAX_CONNECTIONS makes it smaller than the number
\* of concurrent calls.
SmallPool == 1

ConnectSmallPool(c) == ConnectPool(c, SmallPool)

\* await client.query('BEGIN'): outside the inner try, so a failure is thrown
\* without a ROLLBACK.
BeginTx(c) ==
    /\ pc[c] = "begin"
    /\ \E ok \in BOOLEAN :
        IF ok
        THEN /\ pc' = [pc EXCEPT ![c] = "select"]
             /\ tx' = [tx EXCEPT ![c] = [NoTx EXCEPT !.open = TRUE]]
             /\ UNCHANGED <<result, fault, local>>
        ELSE /\ pc' = [pc EXCEPT ![c] = "done"]
             /\ local' = [local EXCEPT ![c] = Finally(@)]
             /\ fault' = [fault EXCEPT ![c] = "BEGIN"]
             /\ result' = [result EXCEPT ![c] = [NoResult EXCEPT !.kind = "thrown"]]
             /\ UNCHANGED tx
    /\ UNCHANGED <<users, bets, walletTx, rowLock, req, batcherVars, consumerVars, proc, queryVars>>

\* Faulty variant of LockFree: FOR UPDATE waits for every lock on the table.
LockFreeTableWide(c, u) == \A v \in Users : rowLock[v] \in {0, c}

\* FOR UPDATE can take the lock of row u for call c: no other transaction
\* holds it.
LockFree(c, u) == rowLock[u] \in {0, c}

\* SELECT balance, version FROM users WHERE id = $1 [FOR UPDATE], then the two
\* checks on its result up to the next await.  With locking the statement waits
\* for the row lock and keeps it.
Select(c, locking) ==
    /\ pc[c] = "select"
    /\ \E ok \in BOOLEAN :
        IF ~ok
        THEN /\ ToCatch(c, "SELECT", ok)
             /\ UNCHANGED <<rowLock, local>>
        ELSE IF req[c].userId \notin Users
        THEN /\ local' = [local EXCEPT ![c].reject = UserNotFound]
             /\ pc' = [pc EXCEPT ![c] = "rb_reject"]
             /\ UNCHANGED <<rowLock, fault>>
        ELSE LET u == req[c].userId
                 balance == users[u].balance
                 version == users[u].version
             IN  /\ locking => LockFree(c, u)
                 /\ rowLock' = IF locking THEN [rowLock EXCEPT ![u] = c] ELSE rowLock
                 /\ IF InsufficientFunds(balance, req[c].amount)
                    THEN /\ local' = [local EXCEPT ![c].balance = balance,
                                                   ![c].version = version,
                                                   ![c].reject = InsufficientBalance]
                         /\ pc' = [pc EXCEPT ![c] = "rb_reject"]
                    ELSE /\ local' = [local EXCEPT
                                        ![c].balance = balance,
                                        ![c].version = version,
                                        ![c].newBalance = NewBalance(balance, req[c].amount)]
                         /\ pc' = [pc EXCEPT ![c] = "update"]
                 /\ UNCHANGED fault
    /\ UNCHANGED <<users, bets, walletTx, tx, req, result, batcherVars, consumerVars, proc, queryVars>>

\* Faulty variant of SelectForUpdate: the read takes no lock.
SelectForUpdateTakesNoLock(c) == Select(c, FALSE)

SelectForUpdate(c) == Select(c, TRUE)

\* The same statement against a store whose row lock does not serialize the
\* readers (design note on the redundant version check): the read neither
\* waits for the row lock nor takes it.
SelectNoLock(c) == Select(c, FALSE)

\* UPDATE users SET balance = $1, version = version + 1 WHERE id = $2 AND
\* version = $3, then potentialWin = amount * odds.  UPDATE waits for the row
\* lock; a row it changes stays locked until the transaction ends.
Update(c) ==
    /\ pc[c] = "update"
    /\ \E ok \in BOOLEAN :
        LET u == req[c].userId IN
        IF ~ok
        THEN /\ ToCatch(c, "UPDATE", ok)
             /\ UNCHANGED <<rowLock, tx, local>>
        ELSE IF UpdateRowCount(c) = 0
        THEN /\ rowLock[u] \in {0, c}
             /\ local' = [local EXCEPT ![c].rowCount = 0,
                                       ![c].versionAtUpdate = users[u].version,
                                       ![c].reject = ConcurrentModification]
             /\ pc' = [pc EXCEPT ![c] = "rb_reject"]
             /\ UNCHANGED <<rowLock, tx, fault>>
        ELSE IF ~UsersConstraintsHold(UpdatedUserRow(c))
        THEN /\ rowLock[u] \in {0, c}
             /\ ToCatch(c, "UPDATE", ok)
             /\ local' = [local EXCEPT ![c].versionAtUpdate = users[u].version]
             /\ UNCHANGED <<rowLock, tx>>
        ELSE /\ rowLock[u] \in {0, c}
             /\ rowLock' = [rowLock EXCEPT ![u] = c]
             /\ tx' = [tx EXCEPT ![c].userRow = << UpdatedUserRow(c) >>]
             /\ local' = [local EXCEPT
                            ![c].rowCount = 1,
                            ![c].versionAtUpdate = users[u].version,
                            ![c].potentialWin = PotentialWin(req[c].amount, req[c].odds)]
             /\ pc' = [pc EXCEPT ![c] = "insert_bet"]
             /\ UNCHANGED fault
    /\ UNCHANGED <<users, bets, walletTx, req, result, batcherVars, consumerVars, proc, queryVars>>

\* INSERT INTO bets (...).  The statement fails when the store is at fault or
\* when the row breaks a constraint of the table.
InsertBet(c) ==
    /\ pc[c] = "insert_bet"
    /\ \E ok \in BOOLEAN :
        IF ok /\ BetsConstraintsHold(BetRow(c))
        THEN /\ tx' = [tx EXCEPT ![c].bets = @ \cup {BetRow(c)}]
             /\ pc' = [pc EXCEPT ![c] = "insert_wtx"]
             /\ UNCHANGED fault
        ELSE /\ ToCatch(c, "INSERT bets", ok)
             /\ UNCHANGED tx
    /\ UNCHANGED <<users, bets, walletTx, rowLock, req, local, result, batcherVars, consumerVars, proc, queryVars>>

\* INSERT INTO wallet_transactions (...).
InsertWalletTx(c) ==
    /\ pc[c] = "insert_wtx"
    /\ \E ok \in BOOLEAN :
        IF ok
        THEN /\ tx' = [tx EXCEPT ![c].wtxs = @ \cup {WalletRow(c)}]
             /\ pc' = [pc EXCEPT ![c] = "commit"]
             /\ UNCHANGED fault
        ELSE /\ ToCatch(c, "INSERT wallet_transactions", ok)
             /\ UNCHANGED tx
    /\ UNCHANGED <<users, bets, walletTx, rowLock, req, local, result, batcherVars, consumerVars, proc, queryVars>>

\* await client.query('COMMIT').  A COMMIT that fails ends the transaction
\* without making any of its rows visible.
Commit(c) ==
    /\ pc[c] = "commit"
    /\ \E ok \in BOOLEAN :
        IF ok
        THEN /\ users' = CommitUsers(c)
             /\ bets' = CommitBets(c)
             /\ walletTx' = CommitWalletTx(c)
             /\ pc' = [pc EXCEPT ![c] = "committed"]
             /\ UNCHANGED fault
        ELSE /\ ToCatch(c, "COMMIT", ok)
             /\ UNCHANGED <<users, bets, walletTx>>
    /\ tx' = [tx EXCEPT ![c] = NoTx]
    /\ rowLock' = ReleaseLocks(c)
    /\ UNCHANGED <<req, local, result, batcherVars, consumerVars, proc, queryVars>>

\* await client.query('COMMIT') rejects although the store has applied the
\* COMMIT: the connection is lost between the store's commit and its reply
\* reaching the client.  The call goes to catch (dbError) as for any failed
\* statement.
CommitUnacknowledged(c) ==
    /\ pc[c] = "commit"
    /\ users' = CommitUsers(c)
    /\ bets' = CommitBets(c)
    /\ walletTx' = CommitWalletTx(c)
    /\ ToCatch(c, "COMMIT", FALSE)
    /\ tx' = [tx EXCEPT ![c] = NoTx]
    /\ rowLock' = ReleaseLocks(c)
    /\ UNCHANGED <<req, local, result, batcherVars, consumerVars, proc, queryVars>>

\* Faulty variant of ConnectNeeded: the producer is taken to be connected
\* whatever the flag says.
ConnectNeededNever(connected) == FALSE

\* connectProducer(): if (!isProducerConnected) producer.connect() is awaited
\* and the flag set.
ConnectNeeded(connected) == ~connected

\* Where a publishBetEvent call stands at "await connectProducer()": awaiting
\* producer.connect(), or about to resume.
AwaitConnectProducer(connected) ==
    IF ConnectNeeded(connected) THEN "connecting" ELSE "resume"

\* Faulty variant of Respond: "await publishBetEvent(...)", so the response is
\* returned only once the event's promise has resolved.
RespondAwaitingPublish(c) ==
    /\ pc[c] = "committed"
    /\ IF pub[c] = "none"
       THEN /\ pub' = [pub EXCEPT ![c] =
                        AwaitConnectProducer(isProducerConnected)]
            /\ UNCHANGED <<result, pc, local>>
       ELSE /\ pub[c] = "resolved"
            /\ result' = [result EXCEPT ![c] =
                    [NoResult EXCEPT !.kind = "returned", !.status = "accepted",
                                     !.newBalance = local[c].newBalance,
                                     !.potentialWin = local[c].potentialWin]]
            /\ pc' = [pc EXCEPT ![c] = "done"]
            /\ local' = [local EXCEPT ![c] = Finally(@)]
            /\ UNCHANGED pub
    /\ UNCHANGED <<ledgerVars, req, fault, isProducerConnected,
                   messageQueue, batchTimer, timers, inflight, bus, flushLog,
                   consumerVars, proc, queryVars>>

\* Faulty variant of Respond: client.query('COMMIT') is not awaited, so the response
\* and the publish may run while the transaction is still open.
RespondBeforeCommit(c) ==
    /\ pc[c] \in {"commit", "committed"}
    /\ result' = [result EXCEPT ![c] =
                    [NoResult EXCEPT !.kind = "returned", !.status = "accepted",
                                     !.newBalance = local[c].newBalance,
                                     !.potentialWin = local[c].potentialWin]]
    /\ pub' = [pub EXCEPT ![c] =
                 AwaitConnectProducer(isProducerConnected)]
    /\ pc' = [pc EXCEPT ![c] = "done"]
    /\ local' = [local EXCEPT ![c] = Finally(@)]
    /\ UNCHANGED <<ledgerVars, req, fault, isProducerConnected,
                   messageQueue, batchTimer, timers, inflight, bus, flushLog,
                   consumerVars, proc, queryVars>>

\* Lines 92-121, which run without an await once COMMIT has resolved: the
\* response is built, publishBetEvent is called (it runs up to its own first
\* await, await connectProducer(), and is not awaited), the response is
\* returned and finally releases the client.
Respond(c) ==
    /\ pc[c] = "committed"
    /\ result' = [result EXCEPT ![c] =
                    [NoResult EXCEPT !.kind = "returned", !.status = "accepted",
                                     !.newBalance = local[c].newBalance,
                                     !.potentialWin = local[c].potentialWin]]
    /\ pub' = [pub EXCEPT ![c] =
                 AwaitConnectProducer(isProducerConnected)]
    /\ pc' = [pc EXCEPT ![c] = "done"]
    /\ local' = [local EXCEPT ![c] = Finally(@)]
    /\ UNCHANGED <<ledgerVars, req, fault, isProducerConnected,
                   messageQueue, batchTimer, timers, inflight, bus, flushLog,
                   consumerVars, proc, queryVars>>

\* Faulty variant of RollbackReject: the rejection is thrown as an error instead of
\* being returned.
RollbackRejectThrows(c) ==
    /\ pc[c] = "rb_reject"
    /\ tx' = [tx EXCEPT ![c] = NoTx]
    /\ rowLock' = ReleaseLocks(c)
    /\ result' = [result EXCEPT ![c] =
                    [NoResult EXCEPT !.kind = "thrown", !.error = local[c].reject]]
    /\ pc' = [pc EXCEPT ![c] = "done"]
    /\ local' = [local EXCEPT ![c] = Finally(@)]
    /\ UNCHANGED <<users, bets, walletTx, req, fault, batcherVars, consumerVars, proc, queryVars>>

\* await client.query('ROLLBACK') of one of the three business rejections, then
\* the return of the rejection.  If the ROLLBACK fails its error is caught by
\* catch (dbError).
RollbackReject(c) ==
    /\ pc[c] = "rb_reject"
    /\ \E ok \in BOOLEAN :
        IF ok
        THEN /\ tx' = [tx EXCEPT ![c] = NoTx]
             /\ rowLock' = ReleaseLocks(c)
             /\ result' = [result EXCEPT ![c] =
                    [NoResult EXCEPT
                        !.kind = "returned", !.status = "rejected",
                        !.error = local[c].reject,
                        !.currentBalance =
                            IF local[c].reject = InsufficientBalance
                            THEN local[c].balance ELSE -1]]
             /\ pc' = [pc EXCEPT ![c] = "done"]
             /\ local' = [local EXCEPT ![c] = Finally(@)]
             /\ UNCHANGED fault
        ELSE /\ ToCatch(c, "ROLLBACK", ok)
             /\ UNCHANGED <<tx, rowLock, result, local>>
    /\ UNCHANGED <<users, bets, walletTx, req, batcherVars, consumerVars, proc, queryVars>>

\* Faulty variant of CatchRollback: publishBetEvent is called from the catch
\* block too.
CatchRollbackPublishes(c) ==
    /\ pc[c] = "catch_rb"
    /\ tx' = [tx EXCEPT ![c] = NoTx]
    /\ rowLock' = ReleaseLocks(c)
    /\ result' = [result EXCEPT ![c] = [NoResult EXCEPT !.kind = "thrown"]]
    /\ pub' = [pub EXCEPT ![c] =
                 AwaitConnectProducer(isProducerConnected)]
    /\ pc' = [pc EXCEPT ![c] = "done"]
    /\ local' = [local EXCEPT ![c] = Finally(@)]
    /\ UNCHANGED <<users, bets, walletTx, req, fault, isProducerConnected,
                   messageQueue, batchTimer, timers, inflight, bus, flushLog,
                   consumerVars, proc, queryVars>>

\* Faulty variant of CatchRollback: the catch block rethrows without a ROLLBACK, so
\* the transaction stays open on the released client.
CatchWithoutRollback(c) ==
    /\ pc[c] = "catch_rb"
    /\ result' = [result EXCEPT ![c] = [NoResult EXCEPT !.kind = "thrown"]]
    /\ pc' = [pc EXCEPT ![c] = "done"]
    /\ local' = [local EXCEPT ![c] = Finally(@)]
    /\ UNCHANGED <<ledgerVars, req, fault, batcherVars, consumerVars, proc, queryVars>>

\* catch (dbError): await client.query('ROLLBACK'); throw dbError.  Whether the
\* ROLLBACK succeeds or the connection is lost, the transaction ends without
\* its rows; an error is thrown either way, and finally releases the client.
CatchRollback(c) ==
    /\ pc[c] = "catch_rb"
    /\ tx' = [tx EXCEPT ![c] = NoTx]
    /\ rowLock' = ReleaseLocks(c)
    /\ result' = [result EXCEPT ![c] = [NoResult EXCEPT !.kind = "thrown"]]
    /\ pc' = [pc EXCEPT ![c] = "done"]
    /\ local' = [local EXCEPT ![c] = Finally(@)]
    /\ UNCHANGED <<users, bets, walletTx, req, fault, batcherVars, consumerVars, proc, queryVars>>

(***************************************************************************)
(* kafka.ts: the event batcher.                                            *)
(***************************************************************************)

\* betValue ? String(betValue) : undefined, for the betValue of a call: a
\* string is kept as its length, no string and the empty string as Undefined.
Undefined == -1

\* The kafkaMessage publishBetEvent builds for call c (betType and the
\* timestamp, strings that no step reads, are left out).
KafkaMessage(c) ==
    [betId |-> c, userId |-> req[c].userId, amount |-> req[c].amount,
     gameId |-> req[c].gameId,
     betValue |-> IF req[c].betValueLen # 0 THEN req[c].betValueLen ELSE Undefined,
     odds |-> req[c].odds, potentialWin |-> local[c].potentialWin,
     transactionId |-> c, newBalance |-> local[c].newBalance]

\* Object.keys(kafkaMessage).forEach(... delete kafkaMessage[key]): the keys
\* whose value is undefined are removed; only betValue can be.
RemoveUndefined(m) ==
    IF m.betValue = Undefined THEN [k \in DOMAIN m \ {"betValue"} |-> m[k]] ELSE m

\* The event of call c as it is serialized.
BetEvent(c) == RemoveUndefined(KafkaMessage(c))

\* The keys of an event in the order JSON.stringify writes them, those that
\* hold numbers, and the unit a number of the model is counted in (amount and
\* newBalance in mills, odds in hundredths, potentialWin in 1/100000).
KeyOrder ==
    <<"betId", "userId", "amount", "gameId", "betValue", "odds", "potentialWin",
      "transactionId", "newBalance">>

NumberKeys == {"amount", "odds", "potentialWin", "newBalance"}

Scale(k) ==
    CASE k \in {"amount", "newBalance"} -> 1000
      [] k = "odds" -> 100
      [] k = "potentialWin" -> 100000

RECURSIVE Digits(_)
Digits(n) == IF n < 10 THEN <<n>> ELSE Digits(n \div 10) \o <<n % 10>>

RECURSIVE FracDigits(_, _)
FracDigits(r, scale) ==
    IF r = 0 THEN <<>>
    ELSE <<(r * 10) \div scale>> \o FracDigits((r * 10) % scale, scale)

RECURSIVE DigitsValue(_)
DigitsValue(ds) ==
    IF ds = <<>> THEN 0
    ELSE DigitsValue(SubSeq(ds, 1, Len(ds) - 1)) * 10 + ds[Len(ds)]

RECURSIVE FracValue(_, _)
FracValue(ds, scale) ==
    IF ds = <<>> THEN 0
    ELSE Head(ds) * (scale \div 10) + FracValue(Tail(ds), scale \div 10)

\* Faulty variant of NumberText: the number is written with two decimals.
NumberTextTwoDecimals(x, scale) ==
    <<"num", Digits(x \div scale),
      FracDigits((((x % scale) * 100) \div scale) * (scale \div 100), scale)>>

\* A number as JSON.stringify writes it: the digits of the integer part and
\* the digits after the point, none if the number is whole.
NumberText(x, scale) == <<"num", Digits(x \div scale), FracDigits(x % scale, scale)>>

\* The number JSON.parse reads from such a text, in the unit of the field.
TextNumber(t, scale) == DigitsValue(t[2]) * scale + FracValue(t[3], scale)

\* A member "key":value of the JSON text; a string is written in quotes.
Member(k, v) ==
    <<k, IF k \in NumberKeys THEN NumberText(v, Scale(k)) ELSE <<"str", v>> >>

RECURSIVE Members(_, _)
Members(ev, ks) ==
    IF ks = <<>> THEN <<>>
    ELSE (IF Head(ks) \in DOMAIN ev THEN <<Member(Head(ks), ev[Head(ks)])>> ELSE <<>>)
         \o Members(ev, Tail(ks))

\* The object a JSON text is read as.
JsonValue(text) ==
    [k \in {text[i][1] : i \in DOMAIN text} |->
        LET tok == text[CHOOSE i \in DOMAIN text : text[i][1] = k][2]
        IN  IF tok[1] = "num" THEN TextNumber(tok, Scale(k)) ELSE tok[2]]

\* JSON.stringify(kafkaMessage) and JSON.parse of a message value.  A value
\* is <<"json", text>> for a JSON text, the members of the object in order;
\* any other value is no JSON text.
Stringify(ev) == <<"json", Members(ev, KeyOrder)>>

IsJson(v) == Len(v) = 2 /\ v[1] = "json"

\* What JSON.parse throws on a text that is not JSON.
SyntaxError == [error |-> "SyntaxError"]

\* Faulty variant of Parse: a text that is not JSON parses to an empty event.
ParseLenient(v) ==
    IF IsJson(v) THEN JsonValue(v[2])
    ELSE [betId |-> 0, userId |-> "", amount |-> 0, gameId |-> "", odds |-> 0,
          potentialWin |-> 0, transactionId |-> 0, newBalance |-> 0]

Parse(v) == IF IsJson(v) THEN JsonValue(v[2]) ELSE SyntaxError

\* messageString.length: 300 characters for the ten fields always present
\* (three UUIDs, the transaction id, the ISO timestamp, short numbers, the
\* bet type and the keys), and ,"betValue":"..." when a betValue is given.
MessageSize(ev) == 300 + (IF "betValue" \in DOMAIN ev THEN 14 + ev.betValue ELSE 0)

\* if (messageSize > 1000000) and if (messageSize > 10000)
MaxMessageSize == 1000000
SuspiciousMessageSize == 10000

\* Faulty variant of TooLarge: the soft cap compared with >=.
TooLargeInclusive(size) == size > MaxMessageSize \/ size >= SuspiciousMessageSize

TooLarge(size) == size > MaxMessageSize \/ size > SuspiciousMessageSize

\* Faulty variant of BatchFull: the size trigger is missing, every publish only
\* arms the timer.
BatchFullNever(q) == FALSE

\* Faulty variant of BatchFull: "> BATCH_SIZE", the size trigger comes one
\* message late.
BatchFullAbove(q) == Len(q) > BATCH_SIZE

\* if (messageQueue.length >= BATCH_SIZE)
BatchFull(q) == Len(q) >= BATCH_SIZE

\* The PendingMessage of call c (its resolve and reject are pub[c]).
PendingMessage(c) == [key |-> c, value |-> Stringify(BetEvent(c))]

\* Faulty variant of Enqueue: the message is pushed twice.
EnqueueTwice(q, m) == Append(Append(q, m), m)

\* messageQueue.push(...)
Enqueue(q, m) == Append(q, m)

\* messageQueue.splice(0, BATCH_SIZE): the batch removed and the queue left.
SpliceBatch(q) == SubSeq(q, 1, IF Len(q) < BATCH_SIZE THEN Len(q) ELSE BATCH_SIZE)

\* Faulty variant of SpliceRest: slice instead of splice, nothing is removed.
SpliceRestKeepsAll(q) == q

SpliceRest(q) == SubSeq(q, (IF Len(q) < BATCH_SIZE THEN Len(q) ELSE BATCH_SIZE) + 1, Len(q))

\* processBatch() up to its first await, run on queue q with the flag as
\* connectProducer() finds it: nothing on an empty queue, else the batch is
\* spliced off and awaits the producer, after producer.connect() if the flag
\* asks for it.
ProcessBatch(q, trigger, connected) ==
    IF q = <<>>
    THEN /\ messageQueue' = q
         /\ UNCHANGED <<inflight, flushLog>>
    ELSE /\ messageQueue' = SpliceRest(q)
         /\ inflight' = inflight \cup {SpliceBatch(q)}
         /\ flushLog' = Append(flushLog, [batch |-> SpliceBatch(q), trigger |-> trigger,
                                          connect |-> ConnectNeeded(connected)])

\* Faulty variant of ScheduleBatch: a timer is set whether or not one is armed.
ScheduleBatchAlways(armed, n) == n + 1

\* scheduleBatch() with n timers not yet run: if (batchTimer) return, else
\* setTimeout adds one.
ScheduleBatch(armed, n) == IF armed THEN n ELSE n + 1

\* publishBetEvent after await connectProducer() has resolved: the message is
\* built, its size checked, the message queued, and processBatch() or
\* scheduleBatch() run up to their first await.
PublishResume(c) ==
    /\ pub[c] \in {"resume", "connecting"}
    /\ isProducerConnected' = IF pub[c] = "connecting" THEN TRUE ELSE isProducerConnected
    /\ LET q == Enqueue(messageQueue, PendingMessage(c))
       IN  IF TooLarge(MessageSize(BetEvent(c)))
           THEN /\ pub' = [pub EXCEPT ![c] = "dropped"]
                /\ UNCHANGED <<messageQueue, batchTimer, timers, inflight, flushLog>>
           ELSE /\ pub' = [pub EXCEPT ![c] = "queued"]
                /\ IF BatchFull(q)
                   THEN /\ ProcessBatch(q, "size", isProducerConnected')
                        /\ UNCHANGED <<batchTimer, timers>>
                   ELSE /\ messageQueue' = q
                        /\ batchTimer' = TRUE
                        /\ timers' = ScheduleBatch(batchTimer, timers)
                        /\ UNCHANGED <<inflight, flushLog>>
    /\ UNCHANGED <<ledgerVars, callVars, bus, consumerVars, proc, queryVars>>

\* Faulty variant of PublishConnectFail: the error of the publish is reported
\* as the outcome of the wager.
PublishConnectFailFailsWager(c) ==
    /\ pub[c] = "connecting"
    /\ pub' = [pub EXCEPT ![c] = "failed"]
    /\ isProducerConnected' = FALSE
    /\ result' = [result EXCEPT ![c] = [NoResult EXCEPT !.kind = "thrown"]]
    /\ UNCHANGED <<ledgerVars, pc, req, local, fault, messageQueue, batchTimer, timers,
                   inflight, bus, flushLog, consumerVars, proc, queryVars>>

\* await connectProducer() rejects (producer.connect() failed): catch
\* (kafkaError) clears the flag and rethrows; nothing is queued.
PublishConnectFail(c) ==
    /\ pub[c] = "connecting"
    /\ pub' = [pub EXCEPT ![c] = "failed"]
    /\ isProducerConnected' = FALSE
    /\ UNCHANGED <<ledgerVars, callVars, messageQueue, batchTimer, timers, inflight, bus,
                   flushLog, consumerVars, proc, queryVars>>

\* The linger timer fires: batchTimer = null, then processBatch() up to its
\* first await.
TimerFire ==
    /\ timers > 0
    /\ timers' = timers - 1
    /\ batchTimer' = FALSE
    /\ ProcessBatch(messageQueue, "timer", isProducerConnected)
    /\ UNCHANGED <<ledgerVars, callVars, pub, isProducerConnected, bus, consumerVars, proc, queryVars>>

\* Faulty variant of BatchCalls: every pending promise is settled, not only
\* those of the batch.
BatchCallsAll(b) == DOMAIN pub

\* batch.forEach(pendingMessage => ...): the calls whose promises are in b.
BatchCalls(b) == {b[i].key : i \in 1..Len(b)}

\* Faulty variant of QueueAfterFailure: the batch is put back at the head of
\* the queue to be sent again.
QueueAfterFailureRequeues(q, b) == b \o q

\* The queue after the catch block of processBatch has run for batch b: the
\* promises of b are rejected and b is dropped, the queue is not touched.
QueueAfterFailure(q, b) == q

\* The flush of batch b called producer.connect() before its send.
FlushConnects(b) ==
    \E j \in 1..Len(flushLog) : flushLog[j].batch = b /\ flushLog[j].connect

\* processBatch after its awaits: connectProducer() (which sets the flag when
\* it had to connect) and producer.send() have succeeded and every promise of
\* the batch is resolved, or one of them has failed and every promise of the
\* batch is rejected.
FlushDone(b) ==
    /\ b \in inflight
    /\ inflight' = inflight \ {b}
    /\ \E ok \in BOOLEAN :
        IF ok
        THEN /\ bus' = bus \o b
             /\ isProducerConnected' = IF FlushConnects(b) THEN TRUE
                                       ELSE isProducerConnected
             /\ LET settled == BatchCalls(b)
                IN  pub' = [c \in DOMAIN pub |->
                              IF c \in settled THEN "resolved" ELSE pub[c]]
             /\ UNCHANGED messageQueue
        ELSE /\ isProducerConnected' = FALSE
             /\ LET settled == BatchCalls(b)
                IN  pub' = [c \in DOMAIN pub |->
                              IF c \in settled THEN "rejected" ELSE pub[c]]
             /\ messageQueue' = QueueAfterFailure(messageQueue, b)
             /\ UNCHANGED bus
    /\ UNCHANGED <<ledgerVars, callVars, batchTimer, timers, flushLog,
                   consumerVars, proc, queryVars>>

(***************************************************************************)
(* Specifications.                                                         *)
(***************************************************************************)

Next ==
    \/ \E c \in Calls : Start(c)
    \/ \E c \in Calls : Connect(c)
    \/ \E c \in Calls : BeginTx(c)
    \/ \E c \in Calls : SelectForUpdate(c)
    \/ \E c \in Calls : Update(c)
    \/ \E c \in Calls : InsertBet(c)
    \/ \E c \in Calls : InsertWalletTx(c)
    \/ \E c \in Calls : Commit(c)
    \/ \E c \in Calls : Respond(c)
    \/ \E c \in Calls : RollbackReject(c)
    \/ \E c \in Calls : CatchRollback(c)
    \/ \E c \in Calls : PublishResume(c)
    \/ \E c \in Calls : PublishConnectFail(c)
    \/ TimerFire
    \/ \E b \in inflight : FlushDone(b)

Spec == Init /\ [][Next]_vars

NextNoLock ==
    \/ \E c \in Calls : Start(c)
    \/ \E c \in Calls : Connect(c)
    \/ \E c \in Calls : BeginTx(c)
    \/ \E c \in Calls : SelectNoLock(c)
    \/ \E c \in Calls : Update(c)
    \/ \E c \in Calls : InsertBet(c)
    \/ \E c \in Calls : InsertWalletTx(c)
    \/ \E c \in Calls : Commit(c)
    \/ \E c \in Calls : Respond(c)
    \/ \E c \in Calls : RollbackReject(c)
    \/ \E c \in Calls : CatchRollback(c)
    \/ \E c \in Calls : PublishResume(c)
    \/ \E c \in Calls : PublishConnectFail(c)
    \/ TimerFire
    \/ \E b \in inflight : FlushDone(b)

\* The ledger with the row lock of the locked read not serializing.
SpecNoLock == Init /\ [][NextNoLock]_vars

NextPool ==
    \/ \E c \in Calls : Start(c)
    \/ \E c \in Calls : ConnectSmallPool(c)
    \/ \E c \in Calls : BeginTx(c)
    \/ \E c \in Calls : SelectForUpdate(c)
    \/ \E c \in Calls : Update(c)
    \/ \E c \in Calls : InsertBet(c)
    \/ \E c \in Calls : InsertWalletTx(c)
    \/ \E c \in Calls : Commit(c)
    \/ \E c \in Calls : Respond(c)
    \/ \E c \in Calls : RollbackReject(c)
    \/ \E c \in Calls : CatchRollback(c)
    \/ \E c \in Calls : PublishResume(c)
    \/ \E c \in Calls : PublishConnectFail(c)
    \/ TimerFire
    \/ \E b \in inflight : FlushDone(b)

\* The ledger on a pool of SmallPool clients.  The one fairness condition is
\* that of pgPool.connect(): a connection attempt ends, and the timer of a
\* queued connect runs out.  No statement of a call that holds a client is
\* fair: the store may never answer it.
SpecPool == Init /\ [][NextPool]_vars /\ \A c \in Calls : WF_vars(ConnectSmallPool(c))

\* Spec with the one fairness condition the event loop gives processBet once
\* COMMIT has resolved: the continuation of the await runs.  No step of the
\* producer, the batcher or the bus is fair: each may never happen.
SpecFair == Spec /\ \A c \in Calls : WF_vars(Respond(c))

\* The program with a store connection that can be lost while COMMIT is being
\* answered.
NextCommitLost ==
    \/ Next
    \/ \E c \in Calls : CommitUnacknowledged(c)

SpecCommitLost == Init /\ [][NextCommitLost]_vars

(***************************************************************************)
(* kafka.ts: the consumer; clickhouse.ts: the analytics writer.            *)
(***************************************************************************)

\* Number of messages on the topic that publishBetEvent did not write.
MaxForeign == 1

\* Message values that are not the JSON text of an event: no value at all,
\* and text JSON.parse throws on.
ForeignValues == {<<>>, <<"text">>}

ForeignCount == Cardinality({i \in 1..Len(bus) : bus[i].key = 0})

\* Another producer writes a message to bet-events.
ForeignProduce ==
    /\ proc # "exited"
    /\ ForeignCount < MaxForeign
    /\ \E v \in ForeignValues : bus' = Append(bus, [key |-> 0, value |-> v])
    /\ UNCHANGED <<ledgerVars, callVars, pub, isProducerConnected, messageQueue,
                   batchTimer, timers, inflight, flushLog, consumerVars, proc, queryVars>>

\* insertData of insertBetEvent.
AnalyticsRow(ev) ==
    [bet_id |-> ev.betId, user_id |-> ev.userId, amount |-> ev.amount,
     game_id |-> ev.gameId, status |-> "completed",
     wallet_transaction_id |-> ev.transactionId]

\* Faulty variant of InsertRow: the table keeps one row for a bet_id.
InsertRowOncePerBet(rows, r) ==
    IF \E k \in 1..Len(rows) : rows[k].bet_id = r.bet_id THEN rows ELSE Append(rows, r)

\* INSERT INTO distributed_systems.bet_events ... VALUES (...): bet_events is
\* a MergeTree table, which has no unique key; the row is added.
InsertRow(rows, r) == Append(rows, r)

\* Faulty variant of OffsetAfter: a message whose handler threw is not
\* resolved, and is delivered to eachMessage again.
OffsetAfterRetrying(o, ok) == IF ok THEN o + 1 ELSE o

\* The consumer's position once eachMessage has returned for the message at
\* o + 1: the catch of eachMessage swallows what the handler threw (ok =
\* FALSE), so the message counts as processed either way.
OffsetAfter(o, ok) == o + 1

\* eachMessage for the next message of the topic.  An empty value returns, a
\* value JSON.parse throws on is logged by the catch; otherwise the handler
\* (BetService.processBetEvent) is awaited: it inserts the row, or the insert
\* fails, insertBetEvent and the handler rethrow and the catch logs.
Consume ==
    /\ proc \in {"running", "stopping"}
    /\ subscribed
    /\ offset < Len(bus)
    /\ LET v == bus[offset + 1].value
       IN  IF v = <<>> \/ Parse(v) = SyntaxError
           THEN /\ offset' = offset + 1
                /\ UNCHANGED <<handlerLog, analytics>>
           ELSE \E ok \in BOOLEAN :
                  /\ handlerLog' = Append(handlerLog,
                         [offset |-> offset + 1, event |-> Parse(v), inserted |-> ok])
                  /\ analytics' = IF ok THEN InsertRow(analytics, AnalyticsRow(Parse(v)))
                                  ELSE analytics
                  /\ offset' = OffsetAfter(offset, ok)
    /\ UNCHANGED <<ledgerVars, callVars, batcherVars, redelivered, subscribed, proc,
                   queryVars>>

\* consumer.subscribe({ topic: 'bet-events', fromBeginning: false }): a group
\* without a committed offset starts after the last message the topic holds.
StartOffset(log) == Len(log)

\* initializeApp, called from the callback of app.listen (the server already
\* accepts bets): connectConsumer() and subscribeToBetEvents(...) have
\* resolved and the consumer has joined its group.
Subscribe ==
    /\ proc = "running"
    /\ ~subscribed
    /\ subscribed' = TRUE
    /\ offset' = StartOffset(bus)
    /\ UNCHANGED <<ledgerVars, callVars, batcherVars, handlerLog, analytics, redelivered,
                   proc, queryVars>>

\* Number of redeliveries followed.
MaxRedeliver == 1

\* The topic delivers the last message again: the consumer rejoined its group
\* before the offset of that message was committed (offsets are committed by
\* the client's autoCommit, after eachMessage has returned).
Redeliver ==
    /\ proc \in {"running", "stopping"}
    /\ subscribed
    /\ offset > 0
    /\ redelivered < MaxRedeliver
    /\ offset' = offset - 1
    /\ redelivered' = redelivered + 1
    /\ UNCHANGED <<ledgerVars, callVars, batcherVars, handlerLog, analytics, subscribed,
                   proc, queryVars>>

(***************************************************************************)
(* index.ts: gracefulShutdown.                                             *)
(***************************************************************************)

\* SIGTERM or SIGINT: gracefulShutdown runs up to await disconnectConsumer().
ShutdownSignal ==
    /\ proc = "running"
    /\ proc' = "stopping"
    /\ UNCHANGED <<ledgerVars, callVars, batcherVars, consumerVars, queryVars>>

\* disconnectConsumer() has returned (it swallows its own error);
\* closeDatabaseConnections() calls pgPool.end().
ConsumerDisconnected ==
    /\ proc = "stopping"
    /\ proc' = "closing"
    /\ UNCHANGED <<ledgerVars, callVars, batcherVars, consumerVars, queryVars>>

RECURSIVE Flatten(_)
Flatten(ss) == IF ss = <<>> THEN <<>> ELSE Head(ss) \o Flatten(Tail(ss))

\* The ways the sends in flight at process.exit may still reach the topic:
\* any of the batches, in any order.
Deliveries(bs) ==
    {ss \in UNION {[1..n -> bs] : n \in 0..Cardinality(bs)} :
        \A i, j \in DOMAIN ss : i # j => ss[i] # ss[j]}

\* pgPool.end() has resolved, which it does once every client is released,
\* and process.exit() ends the process: the calls not yet finished, the
\* queue's timer and every pending promise are gone with it.
ShutdownExit ==
    /\ proc = "closing"
    /\ \A c \in Calls : pc[c] \in {"idle", "connect", "done"}
    /\ proc' = "exited"
    /\ pc' = [c \in Calls |-> IF pc[c] = "done" THEN "done" ELSE "exited"]
    /\ pub' = [c \in Calls |-> IF pub[c] \in {"resume", "connecting"} THEN "lost" ELSE pub[c]]
    /\ batchTimer' = FALSE
    /\ timers' = 0
    /\ inflight' = {}
    /\ \E ss \in Deliveries(inflight) : bus' = bus \o Flatten(ss)
    /\ UNCHANGED <<ledgerVars, req, local, result, fault, isProducerConnected,
                   messageQueue, flushLog, consumerVars, queryVars>>

NextSystem ==
    \/ \E c \in Calls : Start(c)
    \/ \E c \in Calls : Connect(c)
    \/ \E c \in Calls : BeginTx(c)
    \/ \E c \in Calls : SelectForUpdate(c)
    \/ \E c \in Calls : Update(c)
    \/ \E c \in Calls : InsertBet(c)
    \/ \E c \in Calls : InsertWalletTx(c)
    \/ \E c \in Calls : Commit(c)
    \/ \E c \in Calls : Respond(c)
    \/ \E c \in Calls : RollbackReject(c)
    \/ \E c \in Calls : CatchRollback(c)
    \/ \E c \in Calls : PublishResume(c)
    \/ \E c \in Calls : PublishConnectFail(c)
    \/ TimerFire
    \/ \E b \in inflight : FlushDone(b)
    \/ ForeignProduce
    \/ Subscribe
    \/ Consume
    \/ Redeliver
    \/ ShutdownSignal
    \/ ConsumerDisconnected
    \/ ShutdownExit

\* The whole process: ledger, batcher, consumer and shutdown.
SpecSystem == Init /\ [][NextSystem]_vars

(***************************************************************************)
(* clickhouse.ts: getBetAnalytics, called on a table of a few rows.  Only   *)
(* the columns the query reads are kept; a timestamp is a number of minutes *)
(* since midnight of day 0.                                                 *)
(***************************************************************************)

\* Number of rows of the table.
MaxRows == 3

\* 09:05, 09:40 and 10:10 of day 0, 09:05 of day 1.
TimeSamples == {545, 580, 610, 1985}
AmountSamples == {10, 20, 30}

\* No startDate or endDate given (undefined).
NoDate == -1

\* The bounds a call may give.
DateSamples == {NoDate, 580, 610}

Tables ==
    UNION {[1..n -> [timestamp : TimeSamples, amount : AmountSamples]] : n \in 0..MaxRows}

StartOfHour(t) == (t \div 60) * 60
StartOfDay(t) == (t \div 1440) * 1440

\* Faulty variant of Period: toStartOfDay whatever groupBy is.
PeriodAlwaysDay(groupBy, t) == StartOfDay(t)

\* toStartOf${groupBy === 'hour' ? 'Hour' : 'Day'}(timestamp)
Period(groupBy, t) == IF groupBy = "hour" THEN StartOfHour(t) ELSE StartOfDay(t)

\* The conditions appended to WHERE 1=1, and the params array.
Conditions(startDate, endDate) ==
    (IF startDate # NoDate THEN <<[op |-> ">=", rhs |-> "?"]>> ELSE <<>>)
    \o (IF endDate # NoDate THEN <<[op |-> "<=", rhs |-> "?"]>> ELSE <<>>)

Params(startDate, endDate) ==
    (IF startDate # NoDate THEN <<startDate>> ELSE <<>>)
    \o (IF endDate # NoDate THEN <<endDate>> ELSE <<>>)

RECURSIVE SumAmounts(_)
SumAmounts(rows) == IF rows = <<>> THEN 0 ELSE Head(rows).amount + SumAmounts(Tail(rows))

RECURSIVE Gcd(_, _)
Gcd(a, b) == IF b = 0 THEN a ELSE Gcd(b, a % b)

\* avg(amount): the quotient sum / count, kept as a fraction in lowest terms.
Avg(sum, n) == [num |-> sum \div Gcd(sum, n), den |-> n \div Gcd(sum, n)]

\* ORDER BY period: the periods in ascending order.
RECURSIVE OrderBy(_)
OrderBy(ps) ==
    IF ps = {} THEN <<>>
    ELSE LET least == CHOOSE p \in ps : \A q \in ps : p <= q
         IN  <<least>> \o OrderBy(ps \ {least})

\* SELECT period, count(), sum(amount), avg(amount) ... GROUP BY period
\* ORDER BY period over rows.
Aggregate(rows, groupBy) ==
    LET ord == OrderBy({Period(groupBy, rows[i].timestamp) : i \in DOMAIN rows})
    IN  [j \in 1..Len(ord) |->
           LET grp == SelectSeq(rows, LAMBDA r : Period(groupBy, r.timestamp) = ord[j])
           IN  [period |-> ord[j], bet_count |-> Len(grp),
                total_amount |-> SumAmounts(grp),
                avg_amount |-> Avg(SumAmounts(grp), Len(grp))]]

\* timestamp >= rhs, timestamp <= rhs for a condition whose right side is a
\* value.
Holds(cond, t) == IF cond.op = ">=" THEN t >= cond.rhs ELSE t <= cond.rhs

\* clickhouse.query(query, { params }).toPromise(): the parameters of a
\* ClickHouse statement are named, {name:Type}, filled from param_name; a ?
\* is no placeholder and nothing replaces it, so the server refuses a
\* statement that has one with a syntax error and the promise rejects.
Execute(conds, params, rows, groupBy) ==
    IF \E i \in DOMAIN conds : conds[i].rhs = "?"
    THEN [kind |-> "thrown", data |-> <<>>]
    ELSE [kind |-> "returned",
          data |-> Aggregate(SelectSeq(rows, LAMBDA r :
                       \A i \in DOMAIN conds : Holds(conds[i], r.timestamp)), groupBy)]

\* getBetAnalytics(startDate, endDate, groupBy): the catch logs and rethrows.
GetBetAnalytics(startDate, endDate, groupBy) ==
    /\ query' = [startDate |-> startDate, endDate |-> endDate, groupBy |-> groupBy]
    /\ response' = Execute(Conditions(startDate, endDate), Params(startDate, endDate),
                           analytics, groupBy)
    /\ UNCHANGED <<ledgerVars, callVars, batcherVars, consumerVars, proc>>

InitAnalytics ==
    /\ users = InitUsers
    /\ bets = {}
    /\ walletTx = {}
    /\ rowLock = [u \in Users |-> 0]
    /\ tx = [c \in Calls |-> NoTx]
    /\ pc = [c \in Calls |-> "idle"]
    /\ req = [c \in Calls |-> NoReq]
    /\ local = [c \in Calls |-> NoLocal]
    /\ result = [c \in Calls |-> NoResult]
    /\ fault = [c \in Calls |-> "none"]
    /\ pub = [c \in Calls |-> "none"]
    /\ isProducerConnected = FALSE
    /\ messageQueue = <<>>
    /\ batchTimer = FALSE
    /\ timers = 0
    /\ inflight = {}
    /\ bus = <<>>
    /\ flushLog = <<>>
    /\ offset = 0
    /\ handlerLog = <<>>
    /\ analytics \in Tables
    /\ redelivered = 0
    /\ subscribed = FALSE
    /\ proc = "running"
    /\ query = NoQuery
    /\ response = NoResponse

NextAnalytics ==
    \E startDate, endDate \in DateSamples : \E groupBy \in {"hour", "day"} :
        GetBetAnalytics(startDate, endDate, groupBy)

\* The analytics query engine on its own, over every table of up to MaxRows
\* rows.
SpecAnalytics == InitAnalytics /\ [][NextAnalytics]_vars

(***************************************************************************)
(* The batcher driven directly: publishBetEvent is called MaxBurst times in *)
(* one synchronous burst, while the ledger is idle.  Every call is at its   *)
(* await connectProducer(); the calls resume in the order they were made,   *)
(* and the bus answers the flushes in order once the burst is over.         *)
(***************************************************************************)

\* Number of publishBetEvent calls of the burst.
MaxBurst == 252

\* The linger timer may fire among the first EarlyWindow publishes of the
\* burst, and after the burst.
EarlyWindow == 3

Publishers == 1..MaxBurst

\* The betValue lengths of the burst: call 7 serializes to exactly
\* SuspiciousMessageSize, call 8 to one more, call 9 to one more than
\* MaxMessageSize; the others pass no betValue.
BurstBetValueLen(i) ==
    IF i = 7 THEN SuspiciousMessageSize - 314
    ELSE IF i = 8 THEN SuspiciousMessageSize - 313
    ELSE IF i = 9 THEN MaxMessageSize - 313
    ELSE 0

\* The arguments of call i of the burst.
BurstArgs(i) ==
    [userId |-> "u1", gameId |-> "g1", amount |-> 100, odds |-> 200,
     betValueLen |-> BurstBetValueLen(i)]

InitBurst ==
    /\ users = InitUsers
    /\ bets = {}
    /\ walletTx = {}
    /\ rowLock = [u \in Users |-> 0]
    /\ tx = [c \in Publishers |-> NoTx]
    /\ pc = [c \in Publishers |-> "idle"]
    /\ req = [c \in Publishers |-> BurstArgs(c)]
    /\ local = [c \in Publishers |->
                  [NoLocal EXCEPT !.potentialWin = 20000, !.newBalance = 99900]]
    /\ result = [c \in Publishers |-> NoResult]
    /\ fault = [c \in Publishers |-> "none"]
    /\ pub = [c \in Publishers |-> "connecting"]
    /\ isProducerConnected = FALSE
    /\ messageQueue = <<>>
    /\ batchTimer = FALSE
    /\ timers = 0
    /\ inflight = {}
    /\ bus = <<>>
    /\ flushLog = <<>>
    /\ offset = 0
    /\ handlerLog = <<>>
    /\ analytics = <<>>
    /\ redelivered = 0
    /\ subscribed = FALSE
    /\ proc = "running"
    /\ query = NoQuery
    /\ response = NoResponse

\* The publishBetEvent calls still at await connectProducer().
Pending == {c \in DOMAIN pub : pub[c] \in {"resume", "connecting"}}

\* The awaits resume in the order the calls were made.
BurstPublish(c) ==
    /\ IF c = 1 THEN TRUE ELSE pub[c - 1] \notin {"resume", "connecting"}
    /\ PublishResume(c)

\* The timer fires early in the burst or after it.
BurstTimerFire ==
    /\ Pending = {} \/ pub[EarlyWindow + 1] \in {"resume", "connecting"}
    /\ TimerFire

\* The bus answers once the burst is over, the oldest flush first.
BurstFlushDone(b) ==
    /\ Pending = {}
    /\ \E j \in 1..Len(flushLog) :
          /\ flushLog[j].batch = b
          /\ \A i \in 1..(j - 1) : flushLog[i].batch \notin inflight
    /\ FlushDone(b)

NextBurst ==
    \/ \E c \in Publishers : BurstPublish(c)
    \/ BurstTimerFire
    \/ \E b \in inflight : BurstFlushDone(b)

SpecBatcher == InitBurst /\ [][NextBurst]_vars

(***************************************************************************)
(* Vocabulary of the properties.                                           *)
(***************************************************************************)

Accepted(c) == result[c].kind = "returned" /\ result[c].status = "accepted"

Rejected(c) == result[c].kind = "returned" /\ result[c].status = "rejected"

Thrown(c) == result[c].kind = "thrown"

\* No call is in progress.
Finished == \A c \in Calls : pc[c] \in {"idle", "done"}

\* The transaction of call c has been committed.
Committed(c) == pc[c] = "committed" \/ Accepted(c)

BetsOf(c) == {b \in bets : b.id = c}

WalletOf(c) == {w \in walletTx : w.bet_id = c}

SeqSet(q) == {q[i] : i \in 1..Len(q)}

\* The events that are, or have been, in the batcher queue and were sent or
\* are still to be sent.
Enqueued == SeqSet(messageQueue) \cup UNION {SeqSet(b) : b \in inflight} \cup SeqSet(bus)

\* Call c has put no event into the batcher.
NothingEnqueued(c) ==
    /\ pub[c] \in {"none", "resume", "connecting", "failed", "dropped"}
    /\ \A m \in Enqueued : m.key # c

RECURSIVE StakeSum(_)
StakeSum(S) ==
    IF S = {} THEN 0
    ELSE LET c == CHOOSE x \in S : TRUE IN req[c].amount + StakeSum(S \ {c})

RECURSIVE StoredStakeSum(_)
StoredStakeSum(B) ==
    IF B = {} THEN 0
    ELSE LET b == CHOOSE x \in B : TRUE IN b.amount + StoredStakeSum(B \ {b})

\* The ledger's own books balance: each balance is the initial balance minus
\* the amounts the committed bets rows of the account carry.
BalanceMatchesStoredStakes ==
    \A u \in Users :
        users[u].balance =
            InitUsers[u].balance - StoredStakeSum({b \in bets : b.user_id = u})

(***************************************************************************)
(* Properties.                                                             *)
(***************************************************************************)

\* C1: the balance is never negative, and once all calls have finished each
\* account's balance is its initial balance minus the sum of the stakes of the
\* calls on it that returned 'accepted'.
C1_BalanceIsInitialMinusAcceptedStakes ==
    /\ \A u \in Users : users[u].balance >= 0
    /\ Finished =>
         \A u \in Users :
            users[u].balance =
                InitUsers[u].balance
                    - StakeSum({c \in Calls : Accepted(c) /\ req[c].userId = u})

\* C2: in every committed state, a wager's debit is there (the account's
\* version counts it and its balance carries it) exactly when one bets row with
\* status 'pending' and one wallet_transactions row of type 'bet' are there
\* for it.
C2_DebitIffBothRows ==
    /\ \A c \in Calls :
        /\ Cardinality(BetsOf(c)) = (IF Committed(c) THEN 1 ELSE 0)
        /\ Cardinality(WalletOf(c)) = (IF Committed(c) THEN 1 ELSE 0)
        /\ \A b \in BetsOf(c) : b.status = "pending"
        /\ \A w \in WalletOf(c) : w.transaction_type = "bet"
    /\ \A u \in Users :
        /\ users[u].version - InitUsers[u].version
              = Cardinality({b \in bets : b.user_id = u})
        /\ users[u].version - InitUsers[u].version
              = Cardinality({w \in walletTx : w.user_id = u})
        /\ (users[u].balance # InitUsers[u].balance)
              => {b \in bets : b.user_id = u} # {}
    /\ \A b \in bets : \E w \in walletTx : w.bet_id = b.id /\ w.user_id = b.user_id
    /\ \A w \in walletTx : \E b \in bets : w.bet_id = b.id /\ w.user_id = b.user_id

C2_Witness ==
    \E c \in Calls :
        /\ Accepted(c)
        /\ Cardinality(BetsOf(c)) = 1
        /\ Cardinality(WalletOf(c)) = 1
        /\ users[req[c].userId].balance < InitUsers[req[c].userId].balance

C4_AcceptedWithExactPotentialWin ==
    \A c \in Calls :
        (/\ pc[c] = "done"
         /\ ~Thrown(c)
         /\ req[c].userId \in Users
         /\ local[c].balance >= req[c].amount
         /\ local[c].rowCount # 0)
        => /\ Accepted(c)
           /\ result[c].newBalance = local[c].balance - req[c].amount
           /\ result[c].potentialWin = req[c].amount * req[c].odds
           /\ \E b \in BetsOf(c) : b.potential_win = req[c].amount * req[c].odds

\* The tables of the ledger store.
tables == <<users, bets, walletTx>>

\* The business rejection the state read by call c calls for, told from what
\* the call was given and has read, not from what it answered.
Cause(c) ==
    IF pc[c] = "idle" THEN ""
    ELSE IF req[c].userId \notin Users THEN "notfound"
    ELSE IF local[c].balance >= 0 /\ local[c].balance < req[c].amount THEN "insufficient"
    ELSE IF local[c].versionAtUpdate >= 0 /\ local[c].versionAtUpdate # local[c].version
         THEN "concurrent"
    ELSE ""

\* C5: a call that reads a balance strictly less than its stake returns the
\* rejection 'Insufficient balance' carrying the balance the account has, and
\* no step of that call changes the account's balance or version, the bets
\* table or the wallet_transactions table.
C5_InsufficientState ==
    \A c \in Calls :
        (pc[c] = "done" /\ fault[c] = "none" /\ Cause(c) = "insufficient")
        => /\ Rejected(c)
           /\ result[c].error = "Insufficient balance"
           /\ result[c].currentBalance = local[c].balance
           /\ BetsOf(c) = {}
           /\ WalletOf(c) = {}

C5_InsufficientStep ==
    \A c \in Calls :
        (pc'[c] # pc[c] /\ Cause(c)' = "insufficient")
        => /\ UNCHANGED tables
           /\ (pc'[c] = "done" /\ fault'[c] = "none")
                => result'[c].currentBalance = users'[req[c].userId].balance

C5_InsufficientBalanceRejected ==
    []C5_InsufficientState /\ [][C5_InsufficientStep]_vars

C5_Witness ==
    \E c \in Calls :
        /\ Rejected(c)
        /\ result[c].error = "Insufficient balance"
        /\ result[c].currentBalance = 10000
        /\ req[c].amount = 50000
        /\ users[req[c].userId] = InitUsers[req[c].userId]

\* C6: a call for an account id with no users row returns the rejection 'User
\* not found', and creates no users, bets or wallet_transactions row and puts
\* no event into the batcher.
C6_UnknownAccountRejected ==
    /\ DOMAIN users = Users
    /\ \A c \in Calls :
        Cause(c) = "notfound"
        => /\ BetsOf(c) = {}
           /\ WalletOf(c) = {}
           /\ tx[c].userRow = <<>> /\ tx[c].bets = {} /\ tx[c].wtxs = {}
           /\ pub[c] = "none"
           /\ NothingEnqueued(c)
           /\ (pc[c] = "done" /\ fault[c] = "none")
                => (Rejected(c) /\ result[c].error = "User not found")

C6_Witness ==
    \E c \in Calls :
        /\ req[c].userId = "ghost"
        /\ Rejected(c)
        /\ result[c].error = "User not found"
        /\ bets = {} /\ walletTx = {} /\ users = InitUsers

\* C7: a call whose conditional UPDATE finds a version other than the one its
\* SELECT read returns the rejection 'Concurrent modification detected', and
\* no step of that call changes balance, version, bets or wallet_transactions.
C7_MismatchState ==
    \A c \in Calls :
        (pc[c] = "done" /\ fault[c] = "none" /\ Cause(c) = "concurrent")
        => /\ Rejected(c)
           /\ result[c].error = "Concurrent modification detected. Please retry."
           /\ BetsOf(c) = {}
           /\ WalletOf(c) = {}
           /\ tx[c] = NoTx

C7_MismatchStep ==
    \A c \in Calls :
        (pc'[c] # pc[c] /\ Cause(c)' = "concurrent") => UNCHANGED tables

C7_VersionMismatchRejected ==
    []C7_MismatchState /\ [][C7_MismatchStep]_vars

C7_Witness ==
    \E c, d \in Calls :
        /\ Rejected(c)
        /\ result[c].error = "Concurrent modification detected. Please retry."
        /\ Accepted(d)
        /\ req[d].userId = req[c].userId
        /\ local[c].version = 0 /\ local[c].versionAtUpdate = 1

C9_RejectionsReturnedAndDistinct ==
    /\ \A c \in Calls :
        (pc[c] = "done" /\ fault[c] = "none" /\ Cause(c) # "")
        => (Rejected(c) /\ result[c].error # "")
    /\ \A c \in Calls : Rejected(c) => Cause(c) # ""
    /\ \A c, d \in Calls :
        (Rejected(c) /\ Rejected(d))
        => ((Cause(c) = Cause(d)) <=> (result[c].error = result[d].error))

C9_Witness ==
    \E c, d \in Calls :
        /\ Rejected(c) /\ Cause(c) = "notfound"
        /\ Rejected(d) /\ Cause(d) = "insufficient"
        /\ result[c].error # result[d].error

\* C10: an event of a wager is in the batcher (queued, in a flush or sent) only
\* if the wager's transaction has committed and the call has returned
\* 'accepted'; and the step that puts it there starts from a state in which
\* both already hold.
C10_EnqueuedState ==
    \A c \in Calls :
        ~NothingEnqueued(c)
        => /\ Accepted(c)
           /\ pc[c] = "done"
           /\ Cardinality(BetsOf(c)) = 1
           /\ Cardinality(WalletOf(c)) = 1

C10_EnqueueStep ==
    \A c \in Calls :
        (NothingEnqueued(c) /\ ~NothingEnqueued(c)')
        => /\ Accepted(c)
           /\ pc[c] = "done"
           /\ Cardinality(BetsOf(c)) = 1

C10_EventOnlyAfterCommitAndReturn ==
    []C10_EnqueuedState /\ [][C10_EnqueueStep]_vars

C10_Witness ==
    \E c \in Calls :
        /\ Accepted(c)
        /\ \E i \in 1..Len(messageQueue) : messageQueue[i].key = c
        /\ Cardinality(BetsOf(c)) = 1

(***************************************************************************)
(* The event batcher.                                                      *)
(***************************************************************************)

\* C11: a call whose transaction has committed returns its accepted result,
\* whatever the producer, the batcher and the bus do or never do.
C11_ReturnsWithoutWaitingForBus ==
    \A c \in Calls : (pc[c] = "committed") ~> Accepted(c)

\* A call has returned 'accepted' while the producer has never connected, no
\* batch was ever spliced and nothing has reached the bus.
C11_Witness ==
    \E c \in Calls :
        /\ Accepted(c)
        /\ pub[c] = "connecting"
        /\ ~isProducerConnected
        /\ flushLog = <<>>
        /\ bus = <<>>

\* Number of times a message keyed c is in the queue, in the batches ever
\* spliced off it, and on the bus.
QueueCount(c) == Cardinality({i \in 1..Len(messageQueue) : messageQueue[i].key = c})

FlushCount(c) ==
    Cardinality(UNION {{<<j, i>> : i \in {k \in 1..Len(flushLog[j].batch) :
                                              flushLog[j].batch[k].key = c}} :
                       j \in 1..Len(flushLog)})

BusCount(c) == Cardinality({i \in 1..Len(bus) : bus[i].key = c})

\* C12: publishBetEvent has been called for a call exactly if the call has
\* returned 'accepted' (never for a rejected or failed call), and the event of
\* a wager is queued at most once and on the bus at most once.
C12_OnePublishPerAcceptedCall ==
    \A c \in Calls :
        /\ (pub[c] # "none") <=> Accepted(c)
        /\ (Rejected(c) \/ Thrown(c)) => (pub[c] = "none" /\ NothingEnqueued(c))
        /\ QueueCount(c) + FlushCount(c) <= 1
        /\ BusCount(c) <= 1
        /\ pub[c] = "resolved" => BusCount(c) = 1

\* One call accepted with its event on the bus, another rejected or failed with
\* nothing published.
C12_Witness ==
    \E c, d \in Calls :
        /\ Accepted(c) /\ BusCount(c) = 1 /\ pub[c] = "resolved"
        /\ (Rejected(d) \/ Thrown(d)) /\ pub[d] = "none"

\* Number of publishes that have queued their message, and the sizes of the
\* batches spliced so far.
QueuedPublishes ==
    Cardinality({c \in DOMAIN pub : pub[c] \in {"queued", "resolved", "rejected"}})

FlushSizes == [j \in 1..Len(flushLog) |-> Len(flushLog[j].batch)]

CeilDiv(n, d) == (n + d - 1) \div d

\* ceil(n / BATCH_SIZE) batches, every one full except possibly the last.
ExpectedSizes(n) ==
    [j \in 1..CeilDiv(n, BATCH_SIZE) |->
        IF j * BATCH_SIZE <= n THEN BATCH_SIZE ELSE n - (j - 1) * BATCH_SIZE]

AllButLastFull == \A j \in 1..(Len(flushLog) - 1) : Len(flushLog[j].batch) = BATCH_SIZE

\* A queued message has the timer armed behind it, so that it gets flushed.
QueuedIsTimed == messageQueue # <<>> => batchTimer

FlushArithmetic ==
    /\ AllButLastFull
    /\ Len(flushLog) <= CeilDiv(QueuedPublishes, BATCH_SIZE)
    /\ messageQueue = <<>> => FlushSizes = ExpectedSizes(QueuedPublishes)
    /\ (messageQueue = <<>> /\ QueuedPublishes = 250) => FlushSizes = <<100, 100, 50>>

\* C13 as claimed: N publishes that queued their message yield ceil(N /
\* BATCH_SIZE) flushes, every one full except possibly the last; 250 yield
\* flushes of 100, 100 and 50.
C13_FlushesAreCeilOfPublishes == QueuedIsTimed /\ FlushArithmetic

\* The linger timer has started no flush, unless it is the last one and
\* nothing has been queued since.
NoEarlyTimerFlush ==
    \A j \in 1..Len(flushLog) :
        flushLog[j].trigger = "timer" => (j = Len(flushLog) /\ messageQueue = <<>>)

\* C13 amended: the same, for publishes between which the linger timer does
\* not flush.
C13_BurstFlushesAreCeilOfPublishes ==
    QueuedIsTimed /\ (NoEarlyTimerFlush => FlushArithmetic)

\* 250 messages were queued in a burst and flushed as 100 and 100 by the size
\* trigger and 50 by the timer.
C13_Witness ==
    /\ QueuedPublishes = 250
    /\ messageQueue = <<>>
    /\ FlushSizes = <<100, 100, 50>>
    /\ flushLog[1].trigger = "size" /\ flushLog[2].trigger = "size"
    /\ flushLog[3].trigger = "timer"

Settled(c) == pub[c] \in {"resolved", "rejected"}

\* The batch in flight that holds the message of call c, if any.
FlightOf(c) == {b \in inflight : c \in BatchCalls(b)}

\* C14, in every state: a fulfilled handle has its message on the bus and its
\* flush over; a failed handle had its message spliced into a flush that is
\* over and that put nothing on the bus.
C14_SettledState ==
    \A c \in DOMAIN pub :
        /\ pub[c] = "resolved" => (BusCount(c) = 1 /\ FlightOf(c) = {} /\ QueueCount(c) = 0)
        /\ pub[c] = "rejected" =>
              (BusCount(c) = 0 /\ FlushCount(c) = 1 /\ FlightOf(c) = {} /\ QueueCount(c) = 0)

\* C14, in every step: a settled handle is never settled again; a handle is
\* settled only by the end of the flush that holds it, which settles every
\* handle of its batch the same way and no handle outside it, fulfilling them
\* only when the batch has been put on the bus.
C14_SettleStep ==
    \A c \in DOMAIN pub :
        /\ Settled(c) => pub'[c] = pub[c]
        /\ (~Settled(c) /\ Settled(c)') =>
              \E b \in inflight :
                  /\ c \in BatchCalls(b)
                  /\ b \notin inflight'
                  /\ \A d \in BatchCalls(b) : pub[d] = "queued" /\ pub'[d] = pub'[c]
                  /\ \A d \in DOMAIN pub \ BatchCalls(b) : pub'[d] = pub[d]
                  /\ pub'[c] = "resolved" => bus' = bus \o b
                  /\ pub'[c] = "rejected" => bus' = bus

C14_HandlesSettledByTheirFlush == []C14_SettledState /\ [][C14_SettleStep]_vars

\* One flush has failed and another has succeeded: the handle of the first is
\* failed, that of the second fulfilled.
C14_Witness ==
    \E c, d \in DOMAIN pub :
        /\ pub[c] = "rejected" /\ BusCount(c) = 0
        /\ pub[d] = "resolved" /\ BusCount(d) = 1

\* The serialized size of the event of publish c.
SizeOf(c) == MessageSize(BetEvent(c))

NeverQueued(c) == QueueCount(c) = 0 /\ FlushCount(c) = 0 /\ BusCount(c) = 0

\* C15, in every state: a publish whose event serializes to more than 10,000
\* characters has no message in the queue, in a flush or on the bus, and its
\* promise is never rejected; one of exactly 10,000 is queued once it has run.
C15_OversizeState ==
    \A c \in DOMAIN pub :
        /\ SizeOf(c) > 10000 =>
              (NeverQueued(c) /\ pub[c] \in {"none", "connecting", "resume", "dropped"})
        /\ (SizeOf(c) = 10000 /\ pub[c] \notin {"none", "connecting", "resume", "failed"}) =>
              (QueueCount(c) + FlushCount(c) = 1 /\ pub[c] # "dropped")

\* C15, in every step: the step in which an oversized publish completes
\* changes neither the queue, the timer, the flushes nor the bus.
C15_OversizeStep ==
    \A c \in DOMAIN pub :
        (SizeOf(c) > 10000 /\ pub'[c] # pub[c]) =>
            /\ pub'[c] = "dropped"
            /\ UNCHANGED <<messageQueue, batchTimer, inflight, flushLog, bus>>

C15_OversizeIsSilentNoOp == []C15_OversizeState /\ [][C15_OversizeStep]_vars

\* A publish above the hard cap and one between the caps have completed
\* without queueing, and one of exactly 10,000 characters is queued.
C15_Witness ==
    /\ \E c \in DOMAIN pub : SizeOf(c) > 1000000 /\ pub[c] = "dropped"
    /\ \E d \in DOMAIN pub :
          SizeOf(d) > 10000 /\ SizeOf(d) <= 1000000 /\ pub[d] = "dropped"
    /\ \E e \in DOMAIN pub : SizeOf(e) = 10000 /\ QueueCount(e) + FlushCount(e) = 1

\* C16: at most one processBatch is between splicing its batch off the queue
\* and settling the batch's handles.
C16_OneFlushAtATime == Cardinality(inflight) <= 1

\* C17: a message that has been queued is in the queue or in exactly one
\* spliced batch, never in both and never in two batches; it is on the bus at
\* most once, and exactly once when its flush has succeeded; and a message
\* still in the queue has the timer armed behind it, so none is skipped.
C17_EachMessageInExactlyOneFlush ==
    /\ \A c \in DOMAIN pub :
        /\ pub[c] \in {"queued", "resolved", "rejected"} =>
              QueueCount(c) + FlushCount(c) = 1
        /\ pub[c] \notin {"queued", "resolved", "rejected"} => NeverQueued(c)
        /\ BusCount(c) <= FlushCount(c)
        /\ pub[c] = "resolved" => BusCount(c) = 1
        /\ Cardinality(FlightOf(c)) <= 1
    /\ QueuedIsTimed

\* Two publishes interleaved with one timer: both messages went out in one
\* batch, and each is on the bus once.
C17_Witness ==
    /\ Len(flushLog) = 1
    /\ Len(flushLog[1].batch) = 2
    /\ Len(bus) = 2
    /\ \A c \in DOMAIN pub : BusCount(c) = 1

\* C18: when gracefulShutdown has completed, the batcher queue is empty and no
\* handle of a queued message is left unsettled.
C18_ShutdownDrainsBatcher ==
    proc = "exited" =>
        /\ messageQueue = <<>>
        /\ \A c \in DOMAIN pub : pub[c] # "queued"

\* The event of call c has failed: its publish could not connect, or the flush
\* that held it failed.
EventFailed(c) == pub[c] \in {"failed", "rejected"}

\* C19, in every state: a wager whose event has failed is still accepted, with
\* its bets row and its wallet_transactions row as committed.
C19_FailedEventState ==
    \A c \in Calls :
        EventFailed(c) =>
            /\ result[c].kind = "returned" /\ result[c].status = "accepted"
            /\ result[c].newBalance = local[c].newBalance
            /\ Cardinality(BetsOf(c)) = 1
            /\ Cardinality(WalletOf(c)) = 1

\* C19, in every step: the step in which an event fails changes no row of the
\* ledger and no result; and the result and the rows of an accepted wager
\* never change afterwards.
C19_FailedEventStep ==
    \A c \in Calls :
        /\ (~EventFailed(c) /\ EventFailed(c)') => UNCHANGED <<users, bets, walletTx, result>>
        /\ Accepted(c) =>
              /\ result'[c] = result[c]
              /\ BetsOf(c)' = BetsOf(c)
              /\ WalletOf(c)' = WalletOf(c)

C19_BusFaultKeepsCommittedWager == []C19_FailedEventState /\ [][C19_FailedEventStep]_vars

\* One accepted wager whose publish could not connect and one whose flush
\* failed, both with their rows in place.
C19_Witness ==
    \E c, d \in Calls :
        /\ Accepted(c) /\ pub[c] = "failed" /\ Cardinality(BetsOf(c)) = 1
        /\ Accepted(d) /\ pub[d] = "rejected" /\ Cardinality(BetsOf(d)) = 1

(***************************************************************************)
(* The consumer.                                                           *)
(***************************************************************************)

\* A message of the topic that cannot be decoded: no value, or no JSON text.
Undecodable(m) == m.value = <<>> \/ m.value[1] # "json"

\* C20, in every state: the handler has been invoked for no undecodable
\* message, at no delivery of it, and every analytics row comes from a
\* handler invocation.
C20_SkippedState ==
    /\ \A k \in 1..Len(handlerLog) :
          /\ handlerLog[k].offset \in 1..Len(bus)
          /\ ~Undecodable(bus[handlerLog[k].offset])
    /\ \A k \in 1..Len(analytics) :
          \E l \in 1..Len(handlerLog) : handlerLog[l].event.betId = analytics[k].bet_id
    /\ Len(analytics) <= Len(handlerLog)

\* C20, in every step: going through an undecodable message invokes no
\* handler, writes no row, sends the message nowhere and leaves the consumer
\* running, past the message.
C20_SkipStep ==
    (offset < Len(bus) /\ offset' = offset + 1 /\ Undecodable(bus[offset + 1])) =>
        UNCHANGED <<handlerLog, analytics, bus, messageQueue, inflight, proc>>

C20_UndecodableMessageSkipped == []C20_SkippedState /\ [][C20_SkipStep]_vars

\* The consumer has gone through an undecodable message and has then handled
\* the message after it.
C20_Witness ==
    \E i \in 1..offset :
        /\ Undecodable(bus[i])
        /\ \E k \in 1..Len(handlerLog) : handlerLog[k].offset > i
        /\ analytics # <<>>

\* The handler invocations whose insert failed.
FailedDeliveries == {k \in 1..Len(handlerLog) : ~handlerLog[k].inserted}

\* C21, in every state: eachMessage has been entered offset + redelivered
\* times, so the handler has run at most once per delivery by the topic, a
\* failed one included; and the table has exactly one row per handler
\* invocation whose insert succeeded, none for a failed one.
C21_FailedState ==
    /\ Len(handlerLog) <= offset + redelivered
    /\ Len(analytics) = Len(handlerLog) - Cardinality(FailedDeliveries)

\* C21, in every step: a handler invocation whose insert fails moves the
\* consumer past the message, adds no row, puts the message nowhere again
\* and leaves the consumer running.
C21_FailedStep ==
    (Len(handlerLog') = Len(handlerLog) + 1 /\ ~handlerLog'[Len(handlerLog')].inserted) =>
        /\ offset' = offset + 1
        /\ handlerLog'[Len(handlerLog')].offset = offset'
        /\ UNCHANGED <<analytics, bus, messageQueue, inflight, proc>>

\* C21: a message whose analytics insert fails is logged by the consumer and
\* passed over: the offset advances, the consumer goes on with the next
\* message, the message is not handled again and leaves no analytics row.
C21_HandlerFailureDropsMessage == []C21_FailedState /\ [][C21_FailedStep]_vars

\* The insert for one message has failed, the message after it has been
\* handled and inserted, and the table has no row for the failed one.
C21_Witness ==
    \E k \in FailedDeliveries :
        /\ \E l \in 1..Len(handlerLog) :
              /\ l > k
              /\ handlerLog[l].offset = handlerLog[k].offset + 1
              /\ handlerLog[l].inserted
        /\ \A j \in 1..Len(analytics) : analytics[j].bet_id # handlerLog[k].event.betId
        /\ redelivered = 0

\* The analytics rows of wager c, and the deliveries of its message that
\* were decoded and inserted.
RowsOf(c) == {j \in 1..Len(analytics) : analytics[j].bet_id = c}

InsertedDeliveries(c) ==
    {k \in 1..Len(handlerLog) :
        handlerLog[k].inserted /\ bus[handlerLog[k].offset].key = c}

\* C22: the analytics table has, for every wager, as many rows as there were
\* deliveries of its event that were decoded and inserted: a second delivery
\* of the same event adds a second row.
C22_OneRowPerInsertedDelivery ==
    \A c \in Calls : Cardinality(RowsOf(c)) = Cardinality(InsertedDeliveries(c))

\* The event of one wager has been delivered twice and the table has two
\* rows for it.
C22_Witness ==
    \E c \in Calls :
        /\ BusCount(c) = 1
        /\ Cardinality(InsertedDeliveries(c)) = 2
        /\ Cardinality(RowsOf(c)) = 2

(***************************************************************************)
(* The analytics query.                                                    *)
(***************************************************************************)

\* Length of a bucket in minutes.
Width(groupBy) == IF groupBy = "hour" THEN 60 ELSE 1440

\* Timestamp t lies in the bucket that starts at p.
TruncatesTo(groupBy, t, p) == p % Width(groupBy) = 0 /\ p <= t /\ t < p + Width(groupBy)

RECURSIVE AmountOver(_)
AmountOver(I) ==
    IF I = {} THEN 0
    ELSE LET k == CHOOSE k \in I : TRUE IN analytics[k].amount + AmountOver(I \ {k})

\* The rows of the example: 09:05, 09:40 and 10:10 with amounts 10, 20, 30.
ExampleRows ==
    <<[timestamp |-> 545, amount |-> 10], [timestamp |-> 580, amount |-> 20],
      [timestamp |-> 610, amount |-> 30]>>

\* C23: getBetAnalytics without bounds returns the buckets in ascending
\* order, one for every bucket some row falls into and none for any other,
\* each with the count, the sum and the average of the amounts of exactly the
\* rows whose timestamp truncates to it; on the example rows by hour that is
\* 09:00 with 2, 30, 15 and 10:00 with 1, 30, 30.
C23_UnboundedAggregation ==
    (query.groupBy # "" /\ query.startDate = NoDate /\ query.endDate = NoDate) =>
        /\ response.kind = "returned"
        /\ LET d == response.data
               g == query.groupBy
           IN  /\ \A i, j \in DOMAIN d : i < j => d[i].period < d[j].period
               /\ \A k \in DOMAIN analytics : \E i \in DOMAIN d :
                     TruncatesTo(g, analytics[k].timestamp, d[i].period)
               /\ \A i \in DOMAIN d :
                     LET I == {k \in DOMAIN analytics :
                                 TruncatesTo(g, analytics[k].timestamp, d[i].period)}
                     IN  /\ I # {}
                         /\ d[i].bet_count = Cardinality(I)
                         /\ d[i].total_amount = AmountOver(I)
                         /\ d[i].avg_amount.num * d[i].bet_count
                              = d[i].total_amount * d[i].avg_amount.den
               /\ (analytics = ExampleRows /\ g = "hour") =>
                     d = <<[period |-> 540, bet_count |-> 2, total_amount |-> 30,
                            avg_amount |-> [num |-> 15, den |-> 1]],
                           [period |-> 600, bet_count |-> 1, total_amount |-> 30,
                            avg_amount |-> [num |-> 30, den |-> 1]]>>

\* The example rows have been queried by hour without bounds and two buckets
\* have come back.
C23_Witness ==
    /\ analytics = ExampleRows
    /\ query = [startDate |-> NoDate, endDate |-> NoDate, groupBy |-> "hour"]
    /\ response.kind = "returned"
    /\ Len(response.data) = 2

\* C24: getBetAnalytics aggregates exactly the rows that pass the bounds
\* given, a bound not given excluding nothing: what the call returns is the
\* aggregation of the rows with (no start or timestamp >= start) and (no end
\* or timestamp <= end).
C24_BoundsAppliedIndependently ==
    query.groupBy # "" =>
        /\ response.kind = "returned"
        /\ response.data =
              Aggregate(SelectSeq(analytics, LAMBDA r :
                            /\ query.startDate = NoDate \/ r.timestamp >= query.startDate
                            /\ query.endDate = NoDate \/ r.timestamp <= query.endDate),
                        query.groupBy)

(***************************************************************************)
(* The wire form.                                                          *)
(***************************************************************************)

\* The calls for which publishBetEvent has built an event.
Built == {c \in Calls : pub[c] \notin {"none", "connecting", "resume", "failed", "lost"}}

\* C25: decoding the serialized message of an event gives the event back,
\* key for key and value for value, with the selection or without it: for
\* the event of every accepted call, and for every event the consumer has
\* decoded from the topic and passed to the handler.
C25_WireRoundTrip ==
    /\ \A c \in Built : Parse(Stringify(BetEvent(c))) = BetEvent(c)
    /\ \A k \in 1..Len(handlerLog) :
          /\ bus[handlerLog[k].offset].key \in Built
          /\ handlerLog[k].event = BetEvent(bus[handlerLog[k].offset].key)

\* The consumer has decoded an event with a selection and a stake that is no
\* whole number, and an event without a selection.
C25_Witness ==
    \E k, l \in 1..Len(handlerLog) :
        /\ "betValue" \in DOMAIN handlerLog[k].event
        /\ handlerLog[k].event.amount = 6
        /\ "betValue" \notin DOMAIN handlerLog[l].event
        /\ handlerLog[l].event.amount = 50000

(***************************************************************************)
(* The connection pool.                                                    *)
(***************************************************************************)

\* C26, in every step: a call that leaves pgPool.connect() has either got a
\* client or thrown, and the step has changed nothing of the ledger; a call
\* gets a client only if the pool has one to give.
C26_ConnectStep ==
    \A c \in Calls :
        (pc[c] = "connect" /\ pc'[c] # "connect") =>
            /\ \/ pc'[c] = "begin" /\ Cardinality(InUse) < SmallPool /\ result'[c] = NoResult
               \/ pc'[c] = "done" /\ Thrown(c)'
            /\ UNCHANGED ledgerVars

\* C26: a processBet call waiting at pgPool.connect(), the pool in use to its
\* last client or not, does not wait forever: it gets a client or throws to
\* its caller, and has changed nothing of the ledger.
C26_PoolWaitEnds ==
    /\ [][C26_ConnectStep]_vars
    /\ \A c \in Calls : (pc[c] = "connect") ~> (pc[c] = "begin" \/ Thrown(c))

\* A call has thrown because the pool had no client within the time allowed,
\* while another call holds the only client; nothing was written.
C26_Witness ==
    \E c, d \in Calls :
        /\ Thrown(c) /\ fault[c] = "pool_timeout"
        /\ d \in InUse
        /\ Cardinality(InUse) = SmallPool
        /\ bets = {} /\ walletTx = {} /\ users = InitUsers

(***************************************************************************)
(* Concurrency control of the debit.                                       *)
(***************************************************************************)

\* C27: with the locked read, no conditional UPDATE of any call matches zero
\* rows, whatever the interleaving: no call finds a version other than the
\* one it read, and none returns the concurrent-modification rejection.
C27_VersionMismatchUnreachable ==
    \A c \in Calls :
        /\ local[c].rowCount # 0
        /\ local[c].versionAtUpdate >= 0 => local[c].versionAtUpdate = local[c].version
        /\ local[c].reject # ConcurrentModification
        /\ result[c].error # ConcurrentModification

\* One call holds the lock of an account's row and its UPDATE has matched the
\* row, while a second call on the same account is at its locked read,
\* waiting.
C27_Witness ==
    \E c, d \in Calls :
        /\ c # d
        /\ req[c].userId = req[d].userId
        /\ pc[c] = "insert_bet" /\ local[c].rowCount = 1
        /\ rowLock[req[c].userId] = c
        /\ pc[d] = "select"

\* Call c is between its locked read of an account row and the end of its
\* transaction.
Between(c) == tx[c].open /\ local[c].version >= 0

\* C28: at any time at most one call is between its locked read of an
\* account's row and its commit or rollback, and that call holds the row's
\* lock; a call about to read an account that no transaction is in the
\* middle of can read it, whatever is held on other accounts.
C28_RowLockSerializesPerAccount ==
    /\ \A c, d \in Calls :
          (c # d /\ Between(c) /\ Between(d)) => req[c].userId # req[d].userId
    /\ \A c \in Calls : Between(c) => rowLock[req[c].userId] = c
    /\ \A c \in Calls :
          (pc[c] = "select"
             /\ \A d \in Calls \ {c} : Between(d) => req[d].userId # req[c].userId)
          => ENABLED (SelectForUpdate(c) /\ pc'[c] \in {"update", "rb_reject"})

\* Two calls are in the middle of their transactions at once, each holding
\* the lock of the row of its own account.
C28_Witness ==
    \E c, d \in Calls :
        /\ Between(c) /\ Between(d)
        /\ req[c].userId = "u1" /\ req[d].userId = "u2"
        /\ rowLock["u1"] = c /\ rowLock["u2"] = d
        /\ pc[c] = "insert_bet" /\ pc[d] = "update"

\* C29, in every state, the row lock not serializing: of two calls on one
\* account that read the same version at most one commits its debit, and
\* once one has, the other, if it got as far as its UPDATE and returns to its
\* caller, matched no row and returns the concurrent-modification rejection.
C29_SameReadState ==
    \A c, d \in Calls :
        (c # d /\ req[c].userId = req[d].userId
           /\ local[c].version >= 0 /\ local[c].version = local[d].version)
        => /\ ~(Committed(c) /\ Committed(d))
           /\ (Committed(c) /\ local[d].versionAtUpdate >= 0
                 /\ pc[d] = "done" /\ ~Thrown(d)) =>
                 /\ local[d].rowCount = 0
                 /\ local[d].versionAtUpdate > local[d].version
                 /\ Rejected(d) /\ result[d].error = ConcurrentModification

\* C29, in every step: a step that changes an account's row is the commit of a
\* call that read the very balance and version the row had until then, and
\* writes that balance less the stake; so no debit is computed from a stale
\* balance and none overwrites another.
C29_DebitStep ==
    \A u \in Users :
        users'[u] # users[u] =>
            \E c \in Calls :
                /\ req[c].userId = u
                /\ pc[c] = "commit" /\ pc'[c] = "committed"
                /\ local[c].version = users[u].version
                /\ local[c].balance = users[u].balance
                /\ users'[u].version = users[u].version + 1
                /\ users'[u].balance = ToDecimal2(users[u].balance - req[c].amount)

C30_TimerState == timers <= 1 /\ (batchTimer <=> timers = 1)

\* C30, in every step that queues a message: if the queue has reached
\* BATCH_SIZE with it, a flush of the first BATCH_SIZE messages starts in
\* that step and no timer is set; otherwise the message stays queued, no
\* flush starts, and a timer is set exactly if none was armed.
C30_PublishStep ==
    \A c \in DOMAIN pub :
        (pub[c] # "queued" /\ pub'[c] = "queued") =>
            IF Len(messageQueue) + 1 >= BATCH_SIZE
            THEN /\ Len(flushLog') = Len(flushLog) + 1
                 /\ flushLog'[Len(flushLog')].trigger = "size"
                 /\ Len(flushLog'[Len(flushLog')].batch) = BATCH_SIZE
                 /\ flushLog'[Len(flushLog')].batch[BATCH_SIZE].key = c
                 /\ flushLog'[Len(flushLog')].batch \in inflight'
                 /\ Len(messageQueue') = Len(messageQueue) + 1 - BATCH_SIZE
                 /\ UNCHANGED <<batchTimer, timers>>
            ELSE /\ Len(messageQueue') = Len(messageQueue) + 1
                 /\ messageQueue'[Len(messageQueue')].key = c
                 /\ UNCHANGED <<flushLog, inflight>>
                 /\ batchTimer'
                 /\ timers' = IF batchTimer THEN timers ELSE timers + 1

C30_FullBatchFlushesElseOneTimer == []C30_TimerState /\ [][C30_PublishStep]_vars

\* A message has been queued behind another while the timer was armed, and a
\* publish that filled the queue has started a flush with the timer still
\* outstanding.
C30_Witness ==
    /\ timers = 1 /\ batchTimer
    /\ Len(messageQueue) >= 2
    /\ \E j \in 1..Len(flushLog) : flushLog[j].trigger = "size"

\* A message waiting in the queue has a linger timer outstanding that will
\* flush it, and a message spliced off the queue is in a flush in progress.
OnItsWay(c) ==
    \/ QueueCount(c) = 1 /\ batchTimer /\ timers >= 1
    \/ FlightOf(c) # {}

\* C31, as the states a run may pass through: a message whose completion
\* handle is not yet settled is still on its way to the bus, either queued with
\* the linger timer armed behind it or held by a flush in progress; there is no
\* state in which it is left with nothing that will take or settle it.
C31_QueuedMessageIsFlushed ==
    \A c \in DOMAIN pub : pub[c] = "queued" => OnItsWay(c)

\* A flush or a publish fails in this step: a handle is rejected, or a publish
\* gives up at producer.connect().
FailsInStep(c) == pub[c] \notin {"rejected", "failed"} /\ pub'[c] \in {"rejected", "failed"}

\* A producer.connect() call completes in this step: the one a publish was
\* awaiting, or the one of a flush that had to connect.
ConnectCompletes ==
    \/ \E c \in DOMAIN pub : pub[c] = "connecting" /\ pub'[c] \in {"queued", "dropped"}
    \/ \E b \in inflight : b \notin inflight' /\ FlushConnects(b) /\ bus' = bus \o b

\* C32, step by step: a failing flush or publish leaves the flag cleared; a
\* publish that starts while the flag is cleared awaits producer.connect()
\* before it goes on, and a flush that starts while the flag is cleared calls
\* producer.connect() before its send, while one that starts with the flag set
\* does not; the flag is set again only by a producer.connect() that completes,
\* and only a flush in progress adds to the bus.
C32_ReconnectStep ==
    /\ (\E c \in DOMAIN pub : FailsInStep(c)) => ~isProducerConnected'
    /\ \A c \in DOMAIN pub :
          (pub[c] = "none" /\ pub'[c] # "none") =>
              (pub'[c] = "connecting" <=> ~isProducerConnected)
    /\ Len(flushLog') > Len(flushLog) =>
          (flushLog'[Len(flushLog')].connect <=> ~isProducerConnected')
    /\ (~isProducerConnected /\ isProducerConnected') => ConnectCompletes
    /\ bus' # bus => \E b \in inflight : bus' = bus \o b /\ b \notin inflight'

\* C32: after a failed flush or publish the connection is marked as not
\* connected, and the next publish or flush calls producer.connect() before
\* any further send is issued.
C32_ReconnectBeforeNextSend == [][C32_ReconnectStep]_vars

\* A flush that sent without connecting has failed, and a later flush has
\* connected first and then put its batch on the bus.
C32_Witness ==
    \E j, k \in 1..Len(flushLog) :
        /\ j < k
        /\ ~flushLog[j].connect
        /\ \A c \in BatchCalls(flushLog[j].batch) : pub[c] = "rejected"
        /\ flushLog[k].connect
        /\ \A c \in BatchCalls(flushLog[k].batch) : pub[c] = "resolved" /\ BusCount(c) = 1

\* C33: a call that has thrown has left nothing in the ledger: no bets row and
\* no wallet_transactions row of it is stored, and every account's version
\* and balance count only the calls on it that did not throw.
C33_ThrownCallLeavesLedgerUnchanged ==
    /\ \A c \in Calls : Thrown(c) => BetsOf(c) = {} /\ WalletOf(c) = {}
    /\ \A u \in Users :
          users[u].version - InitUsers[u].version
              <= Cardinality({c \in Calls : req[c].userId = u /\ ~Thrown(c)
                                            /\ pc[c] \in {"committed", "done"}})

\* The wallet_transactions rows of account u.
WalletRowsOf(u) == {w \in walletTx : w.user_id = u}

\* Each row of the account continues the one before it: its balance_before is
\* the account's initial balance or the balance_after of exactly one other
\* row, no two rows start from the same balance, and the one balance_after
\* that no row continues is the account's current balance.
ChainOf(u) ==
    LET W == WalletRowsOf(u)
        Latest == {w \in W : \A v \in W : v.balance_before # w.balance_after}
    IN  /\ \A w \in W :
              \/ w.balance_before = InitUsers[u].balance
              \/ \E v \in W : v # w /\ v.balance_after = w.balance_before
        /\ \A w, v \in W : w.balance_before = v.balance_before => w = v
        /\ IF W = {} THEN users[u].balance = InitUsers[u].balance
           ELSE \E w \in Latest : Latest = {w} /\ w.balance_after = users[u].balance

\* The calls whose event has been serialized and queued.
EventQueued(c) == pub[c] \in {"queued", "resolved", "rejected"}

\* C34: every wallet_transactions row has balance_after = balance_before -
\* amount; the rows of one account form a chain from its initial balance to
\* its current balance; and the newBalance of a wager's event is the
\* balance_after of the wager's row.
C34_AuditChain ==
    /\ \A w \in walletTx : w.balance_after = w.balance_before - w.amount
    /\ \A u \in Users : ChainOf(u)
    /\ \A c \in DOMAIN pub :
          EventQueued(c) =>
              \A w \in WalletOf(c) :
                  Parse(PendingMessage(c).value).newBalance = w.balance_after

\* The consumer has been through every message the topic holds, and no insert
\* into the analytics store has failed.
CaughtUp ==
    /\ subscribed
    /\ offset = Len(bus)
    /\ \A i \in 1..Len(handlerLog) : handlerLog[i].inserted

\* C35, as the states a run may pass through: once the consumer has been
\* through every message of the topic without a failed insert, every accepted
\* wager whose event the topic holds has at least one row in the analytics
\* store, whether the wager was accepted before or after the consumer
\* subscribed.
C35_AcceptedWagerReachesAnalytics ==
    CaughtUp =>
        \A c \in Calls : (Accepted(c) /\ BusCount(c) >= 1) => RowsOf(c) # {}

\* Row r of the analytics store is the row of wager c: c has committed its
\* ledger transaction, was not rejected and has not thrown, its bets row and
\* its wallet_transactions row are in the ledger, and r carries its wager id,
\* account, game, stake and transaction id.
RowOfCommittedWager(r, c) ==
    /\ Committed(c)
    /\ r.bet_id = c
    /\ r.amount = req[c].amount
    /\ \E b \in BetsOf(c) : b.user_id = r.user_id /\ b.game_id = r.game_id
    /\ \E w \in WalletOf(c) :
          w.transaction_id = r.wallet_transaction_id /\ w.user_id = r.user_id

\* C36: every row of the analytics store is the row of a wager whose ledger
\* transaction committed; a rejected or rolled-back wager has no row.
C36_NoPhantomAnalytics ==
    /\ \A j \in 1..Len(analytics) : \E c \in Calls : RowOfCommittedWager(analytics[j], c)
    /\ \A c \in Calls : (pc[c] = "done" /\ ~Accepted(c)) => RowsOf(c) = {}

\* One wager has its row in the analytics store while another call was
\* rejected or rolled back and has none.
C36_Witness ==
    /\ \E c \in Calls : Accepted(c) /\ RowsOf(c) # {}
    /\ \E d \in Calls : pc[d] = "done" /\ ~Accepted(d) /\ RowsOf(d) = {}

\* The producer.connect() calls that have been made and have not yet
\* completed: those of the publishes awaiting connectProducer(), and those of
\* the flushes in progress that had to connect.
ConnectCalls ==
    Cardinality({c \in DOMAIN pub : pub[c] = "connecting"})
        + Cardinality({b \in inflight : FlushConnects(b)})

\* C37: while the producer is not connected, at most one producer.connect()
\* call is under way, however many publish and flush calls are running.
C37_OneConnectPerDisconnectedPeriod ==
    ~isProducerConnected => ConnectCalls <= 1

\* C38, in every state: a message whose flush has failed is in no queue and in
\* no flush in progress, and exactly one flush has ever held it, so it was
\* handed to the producer at most once.
C38_FailedState ==
    \A c \in DOMAIN pub :
        pub[c] = "rejected" =>
            /\ QueueCount(c) = 0
            /\ FlightOf(c) = {}
            /\ FlushCount(c) = 1
            /\ BusCount(c) <= 1

\* C38, in every step: the handle of a message whose flush has failed stays
\* rejected, and the step puts the message neither back on the queue nor into
\* the batch of a new flush.
C38_FailedStep ==
    \A c \in DOMAIN pub :
        pub[c] = "rejected" =>
            /\ pub'[c] = "rejected"
            /\ \A i \in 1..Len(messageQueue') : messageQueue'[i].key # c
            /\ Len(flushLog') > Len(flushLog) =>
                  c \notin BatchCalls(flushLog'[Len(flushLog')].batch)

\* C38: the messages of a failed flush are dropped: they are off the queue,
\* never re-enqueued and never part of a later flush, so a publish leads to at
\* most one send of its message.
C38_FailedFlushIsNotRetried == []C38_FailedState /\ [][C38_FailedStep]_vars

\* The flush holding one message has failed, and a later flush has delivered
\* another message without taking the failed one along.
C38_Witness ==
    \E c, d \in DOMAIN pub :
        /\ pub[c] = "rejected" /\ BusCount(c) = 0
        /\ pub[d] = "resolved" /\ BusCount(d) = 1
        /\ Len(flushLog) = 2
        /\ c \in BatchCalls(flushLog[1].batch)
        /\ BatchCalls(flushLog[2].batch) = {d}

\* The calls holding a client of the pool that they have not given back.
CheckedOut == {c \in Calls : local[c].client /\ local[c].released = 0}

\* C39: a call that has finished, on whatever path, has released the client it
\* acquired exactly once, and none if pgPool.connect() gave it no client; a
\* call still running has not released its client; the clients checked out
\* are those of the calls between connect and their end; and once every call
\* has finished no client is checked out.
C39_ClientReleasedExactlyOnce ==
    /\ \A c \in Calls :
          /\ pc[c] = "done" => local[c].released = (IF local[c].client THEN 1 ELSE 0)
          /\ pc[c] # "done" => local[c].released = 0
    /\ CheckedOut = InUse
    /\ (\A c \in Calls : pc[c] = "done") => CheckedOut = {}

\* Both calls have finished, one accepted and one with a fault thrown after it
\* had acquired its client; each has released its client once.
C39_Witness ==
    /\ \A c \in Calls : pc[c] = "done" /\ local[c].client /\ local[c].released = 1
    /\ \E c \in Calls : Accepted(c)
    /\ \E d \in Calls : Thrown(d)

\* C40, in every state (no publish step is under way between two steps): the
\* queue holds fewer than BATCH_SIZE messages, and no flush has carried more
\* than BATCH_SIZE messages or none.
C40_QueueState ==
    /\ Len(messageQueue) < BATCH_SIZE
    /\ \A j \in 1..Len(flushLog) :
          Len(flushLog[j].batch) >= 1 /\ Len(flushLog[j].batch) <= BATCH_SIZE

\* C40, in every step that starts a flush: the flush takes everything the
\* queue holds, the message pushed in that step included, and leaves the
\* queue empty.
C40_FlushStep ==
    Len(flushLog') > Len(flushLog) =>
        LET batch == flushLog'[Len(flushLog')].batch
        IN  /\ messageQueue' = <<>>
            /\ SubSeq(batch, 1, Len(messageQueue)) = messageQueue
            /\ Len(batch) \in {Len(messageQueue), Len(messageQueue) + 1}

\* C40: between publish steps the queue is shorter than BATCH_SIZE, so every
\* flush removes the whole queue and none carries more than BATCH_SIZE
\* messages.
C40_QueueBound == []C40_QueueState /\ [][C40_FlushStep]_vars

\* The queue has been one short of BATCH_SIZE, the next publish has flushed
\* a full batch, and a timer has flushed a shorter queue.
C40_Witness ==
    /\ \E j \in 1..Len(flushLog) :
          flushLog[j].trigger = "size" /\ Len(flushLog[j].batch) = BATCH_SIZE
    /\ \E j \in 1..Len(flushLog) :
          flushLog[j].trigger = "timer" /\ Len(flushLog[j].batch) < BATCH_SIZE
    /\ messageQueue = <<>>

====
